---- MODULE Spec2Model ----
(***************************************************************************)
(* A model of the memdb Store (src/store.go, the third and latest revision *)
(* in that file, lines 857-1658): the ordered tree of wrappers, the        *)
(* secondary indexes, the unique-index eviction rule, the persistence      *)
(* mirror, the event queue and its dispatch worker.                        *)
(*                                                                         *)
(* Strings are sequences of small naturals ("characters"); 0 is the        *)
(* reserved separator byte "\000".  A wrapper is a record, identified by   *)
(* its uid (the model's stand-in for the pointer identity of *wrap and for *)
(* the UID string the backend files it under).                             *)
(***************************************************************************)
EXTENDS Integers, Sequences, FiniteSets, TLC

\* ------------------------------------------------------------------ bounds
\* ordering keys of the host items range over 1..MaxA
MaxA == 2
\* number of wrappers alive at a time: in the tree, in a bucket, in the
\* backend or collected by a running Expire
MaxUID == 3
\* capacity of the happens channel (100000 in the program, store.go:918)
QueueCap == 2
\* number of handler registrations
MaxSubs == 2
\* longest list handed to PutAll
MaxBatch == 2

\* the expiry intervals a host may set range over 1..MaxInterval
MaxInterval == 2
\* the wall clock runs from 1 to MaxTime
MaxTime == 3
\* the age thresholds are at most MaxDur
MaxDur == 2
\* an age expirer has at most MaxCb predicates
MaxCb == 2
\* a wrapper is read at most MaxReads times and written at most MaxWrites times
MaxReads == 2
MaxWrites == 3
\* at most MaxReaders index reads are between their load and their store
MaxReaders == 2
\* at most MaxCallers calls of On and of the configuration methods are under
\* way at a time
MaxCallers == 2
\* the goroutines that write and read
MaxThreads == 2
\* each makes at most MaxCalls calls
MaxCalls == 2

\* ------------------------------------------------------------ strings
\* the separator byte "\000" of strings.Join(fields, "\000")
NUL == 0

\* the field names "b" and "c" of the host items
FB == <<1>>
FC == <<2>>

\* the values the fields of a host item may take
BVals == {<<1>>}
CVals == {<<1>>, <<2>>}

\* the host items (test type X: A orders, B and C are indexed fields)
Items == [a : 1..MaxA, b : BVals, c : CVals]

\* a nil item (interface{}(nil))
NoItem == [a |-> 0, b |-> <<>>, c |-> <<>>]

Min(S) == CHOOSE x \in S : \A y \in S : x <= y

\* strings.Join(parts, "\000")
RECURSIVE Join(_)
Join(parts) ==
    IF Len(parts) = 0 THEN <<>>
    ELSE IF Len(parts) = 1 THEN parts[1]
    ELSE parts[1] \o <<NUL>> \o Join(Tail(parts))

\* Go's < on strings: bytewise lexicographic
RECURSIVE StrLess(_, _)
StrLess(s, t) ==
    IF Len(t) = 0 THEN FALSE
    ELSE IF Len(s) = 0 THEN TRUE
    ELSE IF s[1] # t[1] THEN s[1] < t[1]
    ELSE StrLess(Tail(s), Tail(t))

\* fmt.Sprintf("%#v", a): the fields in declaration order, each closed by
\* a delimiter
Repr(x) == <<x.a>> \o <<NUL>> \o x.b \o <<NUL>> \o x.c \o <<NUL>>

\* Unsure: the arbitrary but consistent order on the printed form
Unsure(x, y) == StrLess(Repr(x), Repr(y))

\* all orders in which a Go map over the set S may be iterated
Perms(S) ==
    {p \in [1..Cardinality(S) -> S] : \A i, j \in 1..Cardinality(S) : i # j => p[i] # p[j]}

\* a map with key k set to v
MapPut(m, k, v) == (k :> v) @@ m

InsertAt(s, i, e) == SubSeq(s, 1, i - 1) \o <<e>> \o SubSeq(s, i, Len(s))
RemoveAt(s, i) == SubSeq(s, 1, i - 1) \o SubSeq(s, i + 1, Len(s))

\* ------------------------------------------------------------ state
VARIABLES
    orderable,    \* the host items implement Indexable (Less, GetField)
    comparator,   \* Store.comparator is set (a host comparator on A)
    expirer,      \* Store.expirer is set (a host expirer that answers as the items do)
    fielder,      \* Store.fielder is set (a host fielder that answers as the items do)
    ticker,       \* the interval of Store.ticker, 0 while it is nil
    metaPersister, \* the host's backend implements persist.MetaPersister
    indexes,      \* Store.indexes: id -> [n, fields, unique]
    cIndex,       \* Store.cIndex: <<>> (nil) or <<id>>
    primaryKey,   \* Store.primaryKey
    reversed,     \* Store.reversed
    used,         \* Store.used
    backing,      \* Store.backing: the wrappers in tree order
    index,        \* Store.index: id -> key -> bucket of wrappers
    persister,    \* Store.persister # nil
    disk,         \* the backend's records, each [uid, item]
    happens,      \* Store.happens: the queued happenings
    notifiers,    \* the five notifier lists: kind -> handlers
    expiring,     \* an Expire call is between its scan and its commit
    rmList,       \* the wrappers that call's scan collected
    commits,      \* number of the last write-critical section that sent a
                  \* happening, counted from the last happening delivered
    calls,        \* the handler calls the last step made
    panicked,     \* the last call panicked
    now,          \* the wall clock: what time.Now() returns
    stats,        \* wrap.stats of the wrappers the statistics follow: uid -> Stats
    ager,         \* the thresholds of the host's age expirers: cTime, aTime, mTime
    verdict,      \* what the age expirers answered when last asked
    reading,      \* the index reads between their load and their store of a
                  \* wrapper's read counter
    pending,      \* the calls of On and of the configuration methods between
                  \* what they read and what they write, neither under the lock
    threads,      \* the goroutines that call Put, PutAll, Delete and the
                  \* reads: where each is in its call, and what it holds
    own,          \* what one goroutine last put, and what its Get of it then
                  \* returned
    worker,       \* the dispatch goroutine of Store.Init: ready to receive, or
                  \* crashed with the process by a panic it did not recover
    ranged        \* the ticker whose channel the expiry goroutine of Init ranges over:
                  \* its interval (0 before the loop starts) and the time of its next tick

vars == <<orderable, comparator, expirer, fielder, ticker, metaPersister, indexes, cIndex, primaryKey, reversed, used,
          backing, index, persister, disk, happens, notifiers, expiring,
          rmList, commits, calls, panicked, now, stats, ager, verdict, reading, pending, threads, own, worker, ranged>>

\* the host's side of the store: what it is given and its configuration
hostVars == <<orderable, comparator, expirer, fielder, ticker, metaPersister, indexes, cIndex,
              primaryKey, reversed>>

\* the clock, the statistics, the age expirers and the calls under way
\* outside the lock
statVars == <<now, stats, ager, verdict, reading, pending, threads, own, worker, ranged>>

cfgVars == <<orderable, comparator, expirer, fielder, ticker, metaPersister, indexes, cIndex,
             primaryKey, reversed, statVars>>

Kinds == {"Insert", "Update", "Remove", "Expiry", "Access"}

\* the nil *wrap and the sentinel `none` of indexer.go:45
Nil == [uid |-> 0, item |-> NoItem, values |-> <<>>]
None == [uid |-> -1, item |-> NoItem, values |-> <<>>]

\* a wrapper without statistics (Stats.IsZero)
NoStats == [Created |-> 0, Accessed |-> 0, Modified |-> 0, Reads |-> 0, Writes |-> 0]

\* the statistics of no wrapper: one entry for each uid
RECURSIVE Blank(_)
Blank(n) == IF n = 0 THEN <<>> ELSE Append(Blank(n - 1), NoStats)

\* the age expirers' thresholds when the host has none
NoAger == [cTime |-> 0, aTime |-> 0, mTime |-> 0]

\* ------------------------------------------------------------ ordering
\* Store.GetField: the host's field extraction
GetField(a, field) == IF field = FC THEN a.c ELSE a.b

\* Store.getFieldsValue
getFieldsValue(item, fields) ==
    Join([i \in 1..Len(fields) |-> GetField(item, fields[i])])

\* the closure `less` of Store.Less: the resolution chain
less(a, b) ==
    IF comparator THEN a.a < b.a
    ELSE IF orderable THEN a.a < b.a
    ELSE IF Len(primaryKey) > 0
         THEN StrLess(getFieldsValue(a, primaryKey), getFieldsValue(b, primaryKey))
    ELSE Unsure(a, b)

\* Store.Less
Less(a, b) == IF reversed THEN ~less(a, b) ELSE less(a, b)

\* ------------------------------------------------------------ the tree
\* sort.Search over the tree's items: the first position whose item the
\* probe is Less than, Len + 1 when there is none
SearchPos(s, item) ==
    LET hits == {i \in 1..Len(s) : Less(item, s[i].item)}
    IN  IF hits = {} THEN Len(s) + 1 ELSE Min(hits)

\* the tree's find: the item before that position is the probe's equal
\* when it is not Less than the probe
find(s, item) ==
    LET i == SearchPos(s, item)
    IN  IF i > 1 /\ ~Less(s[i - 1].item, item)
        THEN [at |-> i - 1, found |-> TRUE]
        ELSE [at |-> i, found |-> FALSE]

\* ------------------------------------------------ the store's internals
\* The internal functions work on a record s of the fields they change:
\* backing, index, disk, and out, the happenings sent so far by the running
\* operation; persist tells whether Store.persister is set.

happening(event, old, new) == [event |-> event, old |-> old, new |-> new]

\* persister.Save(id, item): the record filed under id is (over)written
Save(d, id, item) == {r \in d : r.uid # id} \cup {[uid |-> id, item |-> item]}

\* persister.Remove(id)
Remove(d, id) == {r \in d : r.uid # id}

\* Store.rmFromIndex: drop `wrapped` from the bucket of `key`; the last
\* wrapper of a bucket leaves a nil bucket behind, the key stays in the map
rmFromIndex(idx, indexID, key, wrapped) ==
    IF indexID \notin DOMAIN idx THEN idx
    ELSE IF key \notin DOMAIN idx[indexID] THEN idx
    ELSE LET wraps == idx[indexID][key]
             hits == {i \in 1..Len(wraps) : wraps[i].uid = wrapped.uid}
         IN  IF hits = {} THEN idx
             ELSE LET i == Min(hits)
                      n == Len(wraps)
                  IN  IF n = 1 /\ i = 1
                      THEN [idx EXCEPT ![indexID] = MapPut(@, key, <<>>)]
                      ELSE [idx EXCEPT ![indexID] =
                               MapPut(@, key, SubSeq([wraps EXCEPT ![i] = wraps[n]], 1, n - 1))]

\* the loop of Store.rm over s.indexes (each index has its own map, so the
\* iteration order is immaterial)
RECURSIVE rmFromAll(_, _, _)
rmFromAll(idx, ids, w) ==
    IF ids = {} THEN idx
    ELSE LET id == CHOOSE x \in ids : TRUE
         IN  rmFromAll(rmFromIndex(idx, id, w.values[indexes[id].n + 1], w), ids \ {id}, w)

\* Store.rm once the tree's Delete has looked `item` up as f: the wrapper
\* found leaves the tree, then the backend, then the indexes
rmFound(s, f) ==
    IF ~f.found THEN [s |-> s, w |-> Nil]
    ELSE [s |-> [s EXCEPT !.backing = RemoveAt(s.backing, f.at),
                          !.disk = IF s.persist THEN Remove(@, s.backing[f.at].uid) ELSE @,
                          !.index = rmFromAll(s.index, DOMAIN indexes, s.backing[f.at])],
          w |-> s.backing[f.at]]

\* Store.rm: delete the tree's equal of `item`, then its backend record,
\* then its index entries; yields the removed wrapper or Nil
rm(s, item) == rmFound(s, find(s.backing, item))

\* the eviction loop of Store.addToIndex over the occupants of a bucket;
\* evicted is its body once s.rm has yielded r
RECURSIVE evict(_, _, _, _)
RECURSIVE evicted(_, _, _, _)
evicted(r, rest, wrapped, emitted) ==
    IF r.w # Nil
    THEN evict([r.s EXCEPT !.out = Append(@, happening("Update", r.w.item, wrapped.item))],
               rest, wrapped, TRUE)
    ELSE evict(r.s, rest, wrapped, emitted)

evict(s, occupants, wrapped, emitted) ==
    IF Len(occupants) = 0 THEN [s |-> s, emitted |-> emitted]
    ELSE evicted(rm(s, Head(occupants).item), Tail(occupants), wrapped, emitted)

\* s.index[indexID][key], nil when the key is not in the map
bucket(idx, indexID, key) ==
    IF key \in DOMAIN idx[indexID] THEN idx[indexID][key] ELSE <<>>

\* the end of Store.addToIndex on a unique index whose bucket was occupied:
\* e is what the eviction loop left, the bucket becomes the wrapper alone
addToIndexAlone(e, indexID, key, wrapped) ==
    [s |-> [e.s EXCEPT !.index[indexID] = MapPut(@, key, <<wrapped>>)],
     emitted |-> e.emitted]

\* Store.addToIndex once the map of the index exists
addToIndexMap(s, indexID, key, wrapped) ==
    IF indexes[indexID].unique /\ Len(bucket(s.index, indexID, key)) > 0
    THEN addToIndexAlone(evict(s, bucket(s.index, indexID, key), wrapped, FALSE),
                         indexID, key, wrapped)
    ELSE [s |-> [s EXCEPT !.index[indexID] =
                     MapPut(@, key, Append(bucket(s.index, indexID, key), wrapped))],
          emitted |-> FALSE]

\* Store.addToIndex
addToIndex(s, indexID, key, wrapped) ==
    addToIndexMap([s EXCEPT !.index = IF indexID \in DOMAIN @ THEN @
                                      ELSE MapPut(@, indexID, <<>>)],
                  indexID, key, wrapped)

\* the loop of Store.addWrap over s.indexes, in the iteration order ord:
\* r holds the fields and `emitted` as the iterations so far left them
RECURSIVE addWrapLoop(_, _, _, _)
addWrapLoop(r, w, ow, ord) ==
    IF Len(ord) = 0 THEN r
    ELSE addWrapLoop(
             addToIndex(IF ow # Nil
                        THEN [r.s EXCEPT !.index =
                                 rmFromIndex(@, Head(ord),
                                             ow.values[indexes[Head(ord)].n + 1], ow)]
                        ELSE r.s,
                        Head(ord), w.values[indexes[Head(ord)].n + 1], w),
             w, ow, Tail(ord))

\* the return of Store.addWrap: the replaced wrapper, None after an
\* eviction that sent its own Update, or Nil
addWrapReturn(r, ow) ==
    [s |-> r.s, ret |-> IF ow # Nil THEN ow ELSE IF r.emitted THEN None ELSE Nil]

\* Store.addWrap once the tree's ReplaceOrInsert has looked the item up as f
addWrapFound(s, w, ord, f) ==
    addWrapReturn(
        addWrapLoop([s |-> [s EXCEPT !.backing = IF f.found THEN [@ EXCEPT ![f.at] = w]
                                                ELSE InsertAt(@, f.at, w)],
                     emitted |-> FALSE],
                    w, IF f.found THEN s.backing[f.at] ELSE Nil, ord),
        IF f.found THEN s.backing[f.at] ELSE Nil)

\* Store.addWrap
addWrap(s, w, ord) == addWrapFound(s, w, ord, find(s.backing, w.item))

\* Store.wrapIt indexes values[index.n] out of range
wrapItPanics == \E id \in DOMAIN indexes : indexes[id].n >= Cardinality(DOMAIN indexes)

\* the loop of Store.wrapIt filling values[index.n], in iteration order ord
RECURSIVE wrapValues(_, _, _)
wrapValues(values, item, ord) ==
    IF Len(ord) = 0 THEN values
    ELSE wrapValues([values EXCEPT ![indexes[Head(ord)].n + 1] =
                        getFieldsValue(item, indexes[Head(ord)].fields)],
                    item, Tail(ord))

\* the orders of wrapIt's loop over s.indexes that can differ in their
\* outcome: each index fills its own slot unless two indexes share n
WrapOrders ==
    IF \A i, j \in DOMAIN indexes : i # j => indexes[i].n # indexes[j].n
    THEN {CHOOSE p \in Perms(DOMAIN indexes) : TRUE}
    ELSE Perms(DOMAIN indexes)

\* make([]string, n)
RECURSIVE MakeStrings(_)
MakeStrings(n) == IF n = 0 THEN <<>> ELSE Append(MakeStrings(n - 1), <<>>)

\* Store.wrapIt, with the uid the wrapper is given (UID() in add, or the
\* persisted id in Persistent)
wrapIt(item, uid, ord) ==
    [uid |-> uid, item |-> item,
     values |-> wrapValues(MakeStrings(Cardinality(DOMAIN indexes)), item, ord)]

\* the end of Store.add: r is what addWrap yielded for the wrapper w, which
\* is mirrored to the backend under its uid
addSave(r, w) ==
    [s |-> [r.s EXCEPT !.disk = IF r.s.persist THEN Save(@, w.uid, w.item) ELSE @],
     w |-> w, ret |-> r.ret]

\* Store.add of the wrapper wrapIt made
addWrapped(s, w, ordA) == addSave(addWrap(s, w, ordA), w)

\* Store.add: wrap, addWrap, then mirror to the backend under the new uid
add(s, item, uid, ordW, ordA) == addWrapped(s, wrapIt(item, uid, ordW), ordA)

\* putEvent with the replaced wrapper ignored: every put that sent nothing
\* on its way sends an Insert
putEventInsertOnly(s, item, oldWrap) ==
    IF oldWrap # None THEN [s EXCEPT !.out = Append(@, happening("Insert", NoItem, item))]
    ELSE s

\* the happening Put and PutAll send after add
putEvent(s, item, oldWrap) ==
    IF oldWrap = Nil THEN [s EXCEPT !.out = Append(@, happening("Insert", NoItem, item))]
    ELSE IF oldWrap # None
         THEN [s EXCEPT !.out = Append(@, happening("Update", oldWrap.item, item))]
    ELSE s

\* ------------------------------------------------------ configuration
\* The configuration calls work on a record c of the fields they set.

\* the configuration of NewStore / Init
NewStore == [indexes |-> <<>>, cIndex |-> <<>>, primaryKey |-> <<>>, reversed |-> FALSE,
             used |-> FALSE, panics |-> FALSE]

\* panic(...) in a configuration call: the call unwinds, the store is as it was
panic(c) == [c EXCEPT !.panics = TRUE]

\* Store.CreateIndex
CreateIndex(c, fields) ==
    IF c.used THEN panic(c)
    ELSE [c EXCEPT !.indexes = MapPut(@, Join(fields),
                                      [n |-> Cardinality(DOMAIN c.indexes), fields |-> fields,
                                       unique |-> FALSE]),
                   !.cIndex = <<Join(fields)>>]

\* Store.Unique
Unique(c) ==
    IF c.used THEN panic(c)
    ELSE IF Len(c.cIndex) > 0 THEN [c EXCEPT !.indexes[c.cIndex[1]].unique = TRUE]
    ELSE c

\* Store.PrimaryKey
PrimaryKey(c, fields) ==
    IF c.used THEN panic(c)
    ELSE Unique(CreateIndex([c EXCEPT !.primaryKey = fields], fields))

\* the order set whether or not the store is in use
ReversedInUse(c, order) == [c EXCEPT !.reversed = order]

\* Store.Reversed
Reversed(c, order) == IF c.used THEN panic(c) ELSE [c EXCEPT !.reversed = order]

\* one configuration call
Configured(c, call) ==
    CASE call.op = "CreateIndex" -> CreateIndex(c, call.fields)
      [] call.op = "Unique" -> Unique(c)
      [] call.op = "PrimaryKey" -> PrimaryKey(c, call.fields)
      [] call.op = "Reversed" -> Reversed(c, TRUE)

\* a chain of configuration calls on c
RECURSIVE Setup(_, _)
Setup(c, chain) ==
    IF Len(chain) = 0 THEN c ELSE Setup(Configured(c, Head(chain)), Tail(chain))

Call(op, fields) == [op |-> op, fields |-> fields]

\* the chains the stores of the package's tests are set up with:
\* TestCompound, TestUnique, TestPrimaryKey, TestReversed
Setups ==
    {<<Call("CreateIndex", <<FB, FC>>)>>,
     <<Call("CreateIndex", <<FB>>), Call("CreateIndex", <<FC>>), Call("Unique", <<>>)>>,
     <<Call("PrimaryKey", <<FC>>), Call("CreateIndex", <<FB>>)>>,
     <<Call("PrimaryKey", <<FC>>), Call("CreateIndex", <<FB>>), Call("Reversed", <<>>)>>}

\* ------------------------------------------------------------ actions
\* the fields the internals work on, at the start of an operation
Cur == [backing |-> backing, index |-> index, disk |-> disk, out |-> <<>>,
        persist |-> persister]

\* the uids in use: of the wrappers in the tree, in the buckets, collected
\* by a running Expire, and of the backend's records
UIDs(s) ==
    {s.backing[i].uid : i \in 1..Len(s.backing)}
    \cup UNION {UNION {{s.index[id][k][i].uid : i \in 1..Len(s.index[id][k])} :
                       k \in DOMAIN s.index[id]} : id \in DOMAIN s.index}
    \cup {r.uid : r \in s.disk}
    \cup {rmList[i].uid : i \in 1..Len(rmList)}

\* the uids NewUID may return
Free(s) == (1..MaxUID) \ UIDs(s)

\* NewUID: an id no wrapper and no record has
NewUID(s) == Min(Free(s))

\* the happenings of one critical section, stamped with its commit number
RECURSIVE Stamp(_, _)
Stamp(out, c) ==
    IF Len(out) = 0 THEN <<>>
    ELSE <<[event |-> Head(out).event, old |-> Head(out).old, new |-> Head(out).new,
            seq |-> c]>> \o Stamp(Tail(out), c)

\* Commit with the happenings put at the head of the channel
CommitAhead(s) ==
    /\ Len(happens) + Len(s.out) <= QueueCap
    /\ backing' = s.backing
    /\ index' = s.index
    /\ disk' = s.disk
    /\ commits' = IF Len(s.out) > 0 THEN commits + 1 ELSE commits
    /\ happens' = Stamp(s.out, commits + 1) \o happens
    /\ calls' = <<>>
    /\ panicked' = FALSE

\* the end of a write-critical section: the changed fields are stored and
\* the happenings it sent are in the channel
Commit(s) ==
    /\ Len(happens) + Len(s.out) <= QueueCap
    /\ backing' = s.backing
    /\ index' = s.index
    /\ disk' = s.disk
    /\ commits' = IF Len(s.out) > 0 THEN commits + 1 ELSE commits
    /\ happens' = happens \o Stamp(s.out, commits + 1)
    /\ calls' = <<>>
    /\ panicked' = FALSE

\* a goroutine outside every call
Idle == [pc |-> "idle", op |-> "", items |-> <<>>, i |-> 1, fails |-> <<>>,
         nilMeta |-> FALSE, start |-> <<>>, next |-> <<>>, sent |-> FALSE, done |-> 0]

\* n such goroutines
RECURSIVE Waiting(_)
Waiting(n) == IF n = 0 THEN <<>> ELSE Append(Waiting(n - 1), Idle)

\* a store as the host hands it over: NewStore / Init with the host's item
\* type and comparator, then a chain of configuration calls
InitFields ==
    /\ orderable \in BOOLEAN
    /\ comparator \in BOOLEAN
    /\ ~(orderable /\ comparator)
    /\ expirer = FALSE
    /\ fielder = FALSE
    /\ ticker = 0
    /\ \E chain \in Setups :
          LET c == Setup(NewStore, chain)
          IN  /\ indexes = c.indexes
              /\ cIndex = c.cIndex
              /\ primaryKey = c.primaryKey
              /\ reversed = c.reversed
    /\ used = FALSE
    /\ backing = <<>>
    /\ index = <<>>
    /\ persister = FALSE
    /\ disk = {}
    /\ happens = <<>>
    /\ notifiers = [k \in Kinds |-> <<>>]
    /\ expiring = FALSE
    /\ rmList = <<>>
    /\ commits = 0
    /\ calls = <<>>
    /\ panicked = FALSE

\* that store while its statistics are not followed and the host has no
\* age expirer
InitStore ==
    /\ InitFields
    /\ now = 1
    /\ stats = Blank(MaxUID)
    /\ ager = NoAger
    /\ verdict = <<>>
    /\ reading = <<>>
    /\ pending = <<>>
    /\ threads = Waiting(MaxThreads)
    /\ own = [put |-> <<>>, got |-> <<>>]
    /\ worker = "ready"
    /\ ranged = [every |-> 0, due |-> 0]

\* that store, of a host whose backend, if it attaches one, is a plain
\* persist.Persister
Init == InitStore /\ metaPersister = FALSE

\* the configuration calls a host may make
Calls ==
    {Call("CreateIndex", <<FB>>), Call("Unique", <<>>),
     Call("PrimaryKey", <<FC>>), Call("Reversed", <<>>)}

\* the fields the configuration calls work on, of the store as it is
Conf == [indexes |-> indexes, cIndex |-> cIndex, primaryKey |-> primaryKey,
         reversed |-> reversed, used |-> used, panics |-> FALSE]

\* the end of a configuration call: c is what it left
Configuring(c) ==
    /\ indexes' = c.indexes
    /\ cIndex' = c.cIndex
    /\ primaryKey' = c.primaryKey
    /\ reversed' = c.reversed
    /\ panicked' = c.panics
    /\ calls' = <<>>
    /\ UNCHANGED <<orderable, comparator, expirer, fielder, ticker, metaPersister, statVars, used,
                   backing, index,
                   persister, disk, happens,
                   notifiers, expiring, rmList, commits>>

\* a configuration call on the store
Configure(call) == Configuring(Configured(Conf, call))

\* the end of a setter: the comparator, expirer and fielder are as given
\* and the ticker has the interval d
Setting(c, e, f, d) ==
    /\ comparator' = c
    /\ expirer' = e
    /\ fielder' = f
    /\ ticker' = d
    /\ panicked' = FALSE
    /\ calls' = <<>>
    /\ UNCHANGED <<orderable, metaPersister, statVars, indexes, cIndex, primaryKey, reversed, used,
                   backing, index,
                   persister, disk, happens, notifiers, expiring, rmList, commits>>

\* Store.SetIndexer; indexer is TRUE for a host object, FALSE for nil
SetIndexer(indexer) == Setting(indexer, indexer, indexer, ticker)

\* Store.SetComparator
SetComparator(c) == Setting(c, expirer, fielder, ticker)

\* Store.SetExpirer
SetExpirer(e) == Setting(comparator, e, fielder, ticker)

\* Store.SetFielder
SetFielder(f) == Setting(comparator, expirer, f, ticker)

\* Store.ExpireInterval
ExpireInterval(interval) == Setting(comparator, expirer, fielder, interval)

\* the `old` Store.Put returns, given the wrapper add yielded
putOld(oldWrap) == IF oldWrap # Nil /\ oldWrap # None THEN oldWrap.item ELSE NoItem

\* the end of Store.Put: r is what add yielded; the happening is sent and
\* old is the item Put returns
putAdded(r, item) == [s |-> putEvent(r.s, item, r.ret), old |-> putOld(r.ret)]

\* the critical section of Store.Put on the fields s
put(s, item, uid, ordW, ordA) == putAdded(add(s, item, uid, ordW, ordA), item)

\* Store.Put
Put(item) ==
    /\ Free(Cur) # {}
    /\ IF wrapItPanics
       THEN /\ calls' = <<>>
            /\ panicked' = TRUE
            /\ UNCHANGED <<cfgVars, used, backing, index, persister, disk, happens,
                           notifiers, expiring, rmList, commits>>
       ELSE \E ordW \in WrapOrders, ordA \in Perms(DOMAIN indexes) :
              /\ Commit(put(Cur, item, NewUID(Cur), ordW, ordA).s)
              /\ used' = TRUE
              /\ UNCHANGED <<cfgVars, persister, notifiers, expiring, rmList>>

\* the end of Store.Delete: r is what rm yielded; the happening is sent and
\* old is the item Delete returns
deleteRemoved(r) ==
    IF r.w # Nil
    THEN [s |-> [r.s EXCEPT !.out = Append(@, happening("Remove", r.w.item, NoItem))],
          old |-> r.w.item]
    ELSE [s |-> r.s, old |-> NoItem]

\* the critical section of Store.Delete on the fields s
delete(s, search) == deleteRemoved(rm(s, search))

\* Store.Delete
Delete(search) ==
    /\ Commit(delete(Cur, search).s)
    /\ UNCHANGED <<cfgVars, used, persister, notifiers, expiring, rmList>>

\* the wrapper Store.Get finds for `search` in the tree t, or Nil
get(t, search) ==
    LET f == find(t, search)
    IN  IF f.found THEN t[f.at] ELSE Nil

\* Store.Get; it returns get(backing, search).item
Get(search) ==
    LET w == get(backing, search)
    IN  /\ w # Nil => Len(happens) < QueueCap
        /\ happens' = IF w # Nil
                      THEN happens \o Stamp(<<happening("Access", w.item, w.item)>>, commits)
                      ELSE happens
        /\ calls' = <<>>
        /\ panicked' = FALSE
        /\ UNCHANGED <<cfgVars, used, backing, index, persister, disk, notifiers,
                       expiring, rmList, commits>>

\* the loop of Store.PutAll: add and send, item by item; ordsA[i] is the
\* order in which addWrap iterates s.indexes for the i-th item
RECURSIVE putAllLoop(_, _, _, _, _)
putAllLoop(s, items, i, ordW, ordsA) ==
    IF i > Len(items) THEN s
    ELSE putAllLoop(putAdded(add(s, items[i], NewUID(s), ordW, ordsA[i]), items[i]).s,
                    items, i + 1, ordW, ordsA)

\* the lists PutAll is called with
Batches == UNION {[1..n -> Items] : n \in 0..MaxBatch}

\* Store.PutAll
PutAll(items) ==
    /\ Cardinality(Free(Cur)) >= Len(items)
    /\ IF wrapItPanics /\ Len(items) > 0
       THEN /\ calls' = <<>>
            /\ panicked' = TRUE
            /\ UNCHANGED <<cfgVars, used, backing, index, persister, disk, happens,
                           notifiers, expiring, rmList, commits>>
       ELSE \E ordW \in WrapOrders,
               ordsA \in [1..Len(items) -> Perms(DOMAIN indexes)] :
              /\ Commit(putAllLoop(Cur, items, 1, ordW, ordsA))
              /\ used' = (used \/ Len(items) > 0)
              /\ UNCHANGED <<cfgVars, persister, notifiers, expiring, rmList>>

\* the host's IsExpired with its variable `expired` set to e (the test
\* type's x.A == expired)
IsExpired(item, e) == item.a = e

\* Store.findExpired: the wrappers of the tree t, in ascending order, whose
\* item is expired
findExpired(t, e) == SelectSeq(t, LAMBDA w : IsExpired(w.item, e))

\* the number Store.Expire returns for the wrappers its scan collected
expireCount(list) == Len(list)

\* the scan of Store.Expire, under the read lock
ExpireScan(e) ==
    /\ ~expiring
    /\ expiring' = TRUE
    /\ rmList' = findExpired(backing, e)
    /\ calls' = <<>>
    /\ panicked' = FALSE
    /\ UNCHANGED <<cfgVars, used, backing, index, persister, disk, happens, notifiers,
                   commits>>

\* the body of the loop of Store.Expire once s.rm has yielded r
expireRemoved(r) ==
    IF r.w # Nil
    THEN [r.s EXCEPT !.out = Append(@, happening("Expiry", r.w.item, NoItem))]
    ELSE r.s

\* the loop of Store.Expire over the collected wrappers
RECURSIVE expireLoop(_, _)
expireLoop(s, list) ==
    IF Len(list) = 0 THEN s
    ELSE expireLoop(expireRemoved(rm(s, Head(list).item)), Tail(list))

\* the commit of Store.Expire, under the write lock
ExpireCommit ==
    /\ expiring
    /\ Commit(expireLoop(Cur, rmList))
    /\ expiring' = FALSE
    /\ rmList' = <<>>
    /\ UNCHANGED <<cfgVars, used, persister, notifiers>>

\* the backend's Load calling back into Store.Persistent, record by record
\* in the backend's order; a record removed while the load runs is not read
RECURSIVE loadLoop(_, _, _, _)
loadLoop(s, order, ordW, ordA) ==
    IF Len(order) = 0 THEN s
    ELSE LET recs == {r \in s.disk : r.uid = Head(order)}
         IN  IF recs = {} THEN loadLoop(s, Tail(order), ordW, ordA)
             ELSE LET rec == CHOOSE r \in recs : TRUE
                  IN  loadLoop(addWrap(s, wrapIt(rec.item, rec.uid, ordW), ordA).s,
                               Tail(order), ordW, ordA)

\* the store a load into an empty store with the present configuration
\* builds, for one order of the backend and of the index map
Loaded(order, ordW, ordA) ==
    loadLoop([backing |-> <<>>, index |-> <<>>, disk |-> disk, out |-> <<>>,
              persist |-> TRUE], order, ordW, ordA)

\* Store.Persistent
Persistent ==
    /\ IF used
       THEN /\ calls' = <<>>
            /\ panicked' = TRUE
            /\ UNCHANGED <<cfgVars, used, backing, index, persister, disk, happens,
                           notifiers, expiring, rmList, commits>>
       ELSE /\ used' = TRUE
            /\ persister' = TRUE
            /\ \E order \in Perms({r.uid : r \in disk}),
                  ordW \in WrapOrders, ordA \in Perms(DOMAIN indexes) :
                  Commit(Loaded(order, ordW, ordA))
            /\ UNCHANGED <<cfgVars, notifiers, expiring, rmList>>

\* the end of Store.Persistent on a new store: the loaded fields are
\* stored and the happenings the load sent are the first in its channel
CommitNew(s) ==
    /\ Len(s.out) <= QueueCap
    /\ backing' = s.backing
    /\ index' = s.index
    /\ disk' = s.disk
    /\ commits' = IF Len(s.out) > 0 THEN 1 ELSE 0
    /\ happens' = Stamp(s.out, 1)
    /\ calls' = <<>>
    /\ panicked' = FALSE

\* the store is stopped and the same backend is attached to a new store
\* that was given the same configuration: NewStore, the configuration
\* calls, Persistent
Restart ==
    /\ persister
    /\ used' = TRUE
    /\ notifiers' = [k \in Kinds |-> <<>>]
    /\ expiring' = FALSE
    /\ rmList' = <<>>
    /\ \E order \in Perms({r.uid : r \in disk}),
          ordW \in WrapOrders, ordA \in Perms(DOMAIN indexes) :
          CommitNew(Loaded(order, ordW, ordA))
    /\ UNCHANGED <<cfgVars, persister>>

\* ------------------------------------------------------------ backend failures
\* the end of Store.add when the backend's save fails: r is what addWrap
\* yielded for the wrapper w; the record is not written.  nilMeta tells
\* whether a MetaPersister handed back a nil *Meta with its error: add
\* reads meta.Size before it returns, a nil dereference
addSaveFailed(r, w, nilMeta) ==
    [s |-> r.s, w |-> w, ret |-> r.ret, err |-> TRUE, panics |-> metaPersister /\ nilMeta]

\* the end of Store.Put after a failed save: a panic of add unwinds Put
\* before it sends or returns anything
putFailedAdded(r, item) ==
    IF r.panics THEN [s |-> r.s, old |-> NoItem, err |-> FALSE, panics |-> TRUE]
    ELSE [s |-> putEvent(r.s, item, r.ret), old |-> putOld(r.ret), err |-> TRUE,
          panics |-> FALSE]

\* the critical section of Store.Put on the fields s when the save fails
putFailed(s, item, uid, ordW, ordA, nilMeta) ==
    putFailedAdded(addSaveFailed(addWrap(s, wrapIt(item, uid, ordW), ordA),
                                 wrapIt(item, uid, ordW), nilMeta), item)

\* Store.rm on the fields s when the backend's Remove fails: r is what rm
\* yields when it succeeds; the record stays, the rest is done
rmFailed(s, r) ==
    IF r.w # Nil /\ s.persist
    THEN [s |-> [r.s EXCEPT !.disk = s.disk], w |-> r.w, err |-> TRUE]
    ELSE [s |-> r.s, w |-> r.w, err |-> FALSE]

\* the end of Store.Delete after rm yielded r
deleteFailedRemoved(r) ==
    [s |-> deleteRemoved(r).s, old |-> deleteRemoved(r).old, err |-> r.err, panics |-> FALSE]

\* the critical section of Store.Delete on the fields s when Remove fails
deleteFailed(s, search) == deleteFailedRemoved(rmFailed(s, rm(s, search)))

\* the end of a write-critical section in which a backend call failed: o
\* is what the call left, handed back or panicked with
CommitFailed(o) ==
    /\ Len(happens) + Len(o.s.out) <= QueueCap
    /\ backing' = o.s.backing
    /\ index' = o.s.index
    /\ disk' = o.s.disk
    /\ commits' = IF Len(o.s.out) > 0 THEN commits + 1 ELSE commits
    /\ happens' = happens \o Stamp(o.s.out, commits + 1)
    /\ calls' = <<>>
    /\ panicked' = o.panics

\* Store.Put while the backend's save fails
PutFailing(item) ==
    /\ persister
    /\ Free(Cur) # {}
    /\ ~wrapItPanics
    /\ \E ordW \in WrapOrders, ordA \in Perms(DOMAIN indexes), nilMeta \in BOOLEAN :
          CommitFailed(putFailed(Cur, item, NewUID(Cur), ordW, ordA, nilMeta))
    /\ used' = TRUE
    /\ UNCHANGED <<cfgVars, persister, notifiers, expiring, rmList>>

\* Store.Delete while the backend's Remove fails
DeleteFailing(search) ==
    /\ persister
    /\ get(backing, search) # Nil
    /\ CommitFailed(deleteFailed(Cur, search))
    /\ UNCHANGED <<cfgVars, used, persister, notifiers, expiring, rmList>>

\* the outcome o of a put whose save succeeded
putDone(o) == [s |-> o.s, old |-> o.old, err |-> FALSE, panics |-> FALSE]

\* one turn of the loop of Store.PutAll: r is the loop's state before the
\* turn, o what add and the send left for the item; err counts into errs
putAllTurn(r, o) ==
    [s |-> o.s, errs |-> IF o.err THEN r.errs + 1 ELSE r.errs, panics |-> o.panics]

\* the loop of Store.PutAll when the saves of the items marked in fails
\* fail; a panic of add unwinds the loop
RECURSIVE putAllFailed(_, _, _, _, _, _, _)
putAllFailed(r, items, i, ordW, ordsA, fails, nilMeta) ==
    IF i > Len(items) \/ r.panics THEN r
    ELSE putAllFailed(
             putAllTurn(r, IF fails[i]
                           THEN putFailed(r.s, items[i], NewUID(r.s), ordW, ordsA[i], nilMeta)
                           ELSE putDone(put(r.s, items[i], NewUID(r.s), ordW, ordsA[i]))),
             items, i + 1, ordW, ordsA, fails, nilMeta)

\* the state of that loop before its first turn
putAllStart(s) == [s |-> s, errs |-> 0, panics |-> FALSE]

\* the error Store.PutAll returns: non-nil when errs > 0
putAllErr(r) == r.errs > 0

\* Store.PutAll while some of the backend's saves fail
PutAllFailing(items) ==
    /\ persister
    /\ Len(items) > 0
    /\ Cardinality(Free(Cur)) >= Len(items)
    /\ ~wrapItPanics
    /\ \E ordW \in WrapOrders, ordsA \in [1..Len(items) -> Perms(DOMAIN indexes)],
          fails \in [1..Len(items) -> BOOLEAN], nilMeta \in BOOLEAN :
          /\ \E i \in 1..Len(items) : fails[i]
          /\ CommitFailed(putAllFailed(putAllStart(Cur), items, 1, ordW, ordsA, fails,
                                       nilMeta))
    /\ used' = TRUE
    /\ UNCHANGED <<cfgVars, persister, notifiers, expiring, rmList>>

\* ------------------------------------------------------------ the lock
\* sync.RWMutex: a goroutine holds it exclusively from s.Lock() to the
\* deferred s.Unlock(), shared from s.RLock() to s.RUnlock()
Writer(t) == threads[t].pc \in {"locked", "added"}
Reader(t) == threads[t].pc = "reading"

\* the items the goroutines write: one of each place in the order
Written == {item \in Items : item.c = <<1>>}

\* the saves of the backend that fail during a call with the list items
Failing(op, items) ==
    IF persister /\ op # "Delete" THEN [1..Len(items) -> BOOLEAN]
    ELSE [1..Len(items) -> {FALSE}]

\* the calls with the list items: PutAll, and Put and Delete of one item.
\* The backend is the Storage of the package's tests: a MetaSave that fails
\* hands back a nil *Meta with its error
CallsOf(items, op) ==
    {[op |-> op, items |-> items, fails |-> fails,
      nilMeta |-> metaPersister /\ (\E i \in DOMAIN fails : fails[i])] :
         fails \in Failing(op, items)}

\* the calls of the writers
WriteCalls ==
    UNION {UNION {CallsOf(items, op) :
                     op \in IF Len(items) = 1 THEN {"Put", "PutAll", "Delete"}
                            ELSE {"PutAll"}} :
           items \in UNION {[1..n -> Written] : n \in 0..MaxBatch}}

\* s.Lock() at the head of Put, PutAll and Delete: the goroutine waits
\* until no other holds the lock
Lock(t, call) ==
    /\ threads[t].pc = "idle"
    /\ threads[t].done < MaxCalls
    /\ \A u \in 1..MaxThreads : ~Writer(u) /\ ~Reader(u)
    /\ ~wrapItPanics
    /\ call.op # "Delete" => Cardinality(Free(Cur)) >= Len(call.items)
    /\ threads' = [threads EXCEPT ![t] =
                      [pc |-> "locked", op |-> call.op, items |-> call.items, i |-> 1,
                       fails |-> call.fails, nilMeta |-> call.nilMeta, start |-> <<Cur>>,
                       next |-> <<>>, sent |-> FALSE, done |-> threads[t].done + 1]]
    /\ calls' = <<>>
    /\ panicked' = FALSE
    /\ UNCHANGED <<hostVars, used, backing, index, persister, disk, happens, notifiers,
                   expiring, rmList, commits, now, stats, ager, verdict, reading, pending,
                   own, worker, ranged>>

\* what the call c leaves of its i-th item on the fields s
turn(s, c, i, ordW, ordA) ==
    IF c.op = "Delete"
    THEN IF c.fails[i] THEN deleteFailed(s, c.items[i])
         ELSE putDone(delete(s, c.items[i]))
    ELSE IF c.fails[i]
         THEN putFailed(s, c.items[i], NewUID(s), ordW, ordA, c.nilMeta)
         ELSE putDone(put(s, c.items[i], NewUID(s), ordW, ordA))

\* the first half of add or rm for the next item of the call of t: the tree
\* is changed (ReplaceOrInsert, Delete), the buckets are not yet
Tree(t) ==
    /\ threads[t].pc = "locked"
    /\ threads[t].i <= Len(threads[t].items)
    /\ \E ordW \in WrapOrders, ordA \in Perms(DOMAIN indexes) :
          /\ backing' = turn(Cur, threads[t], threads[t].i, ordW, ordA).s.backing
          /\ threads' = [threads EXCEPT
                            ![t].pc = "added",
                            ![t].next = <<turn(Cur, threads[t], threads[t].i, ordW, ordA)>>]
    /\ used' = (used \/ threads[t].op # "Delete")
    /\ calls' = <<>>
    /\ panicked' = FALSE
    /\ UNCHANGED <<hostVars, index, persister, disk, happens, notifiers, expiring,
                   rmList, commits, now, stats, ager, verdict, reading, pending, own,
                   worker, ranged>>

\* the goroutine t after the item whose turn left o: on with the list, or,
\* when add panicked, out of the call with the lock released by the
\* deferred s.Unlock() and the items after that one left in its list
after(th, o) ==
    IF o.panics
    THEN [Idle EXCEPT !.pc = "unwound", !.done = th.done,
                      !.items = IF th.i < Len(th.items)
                                THEN SubSeq(th.items, th.i + 1, Len(th.items)) ELSE <<>>]
    ELSE [th EXCEPT !.pc = "locked", !.i = @ + 1, !.next = <<>>,
                    !.sent = (@ \/ Len(o.s.out) > 0)]

\* the second half: the buckets and the backend are changed and the
\* happening is sent, with the commit number of the call's critical section
Buckets(t) ==
    /\ threads[t].pc = "added"
    /\ Len(happens) + Len(threads[t].next[1].s.out) <= QueueCap
    /\ index' = threads[t].next[1].s.index
    /\ disk' = threads[t].next[1].s.disk
    /\ happens' = happens \o Stamp(threads[t].next[1].s.out,
                                    IF threads[t].sent THEN commits ELSE commits + 1)
    /\ commits' = IF Len(threads[t].next[1].s.out) > 0 /\ ~threads[t].sent
                  THEN commits + 1 ELSE commits
    /\ threads' = [threads EXCEPT ![t] = after(@, threads[t].next[1])]
    /\ calls' = <<>>
    /\ panicked' = threads[t].next[1].panics
    /\ UNCHANGED <<hostVars, used, backing, persister, notifiers, expiring, rmList,
                   now, stats, ager, verdict, reading, pending, own, worker, ranged>>

\* the deferred s.Unlock() of a call that has gone through its list
Unlock(t) ==
    /\ threads[t].pc = "locked"
    /\ threads[t].i > Len(threads[t].items)
    /\ threads' = [threads EXCEPT ![t] = [Idle EXCEPT !.done = threads[t].done]]
    /\ calls' = <<>>
    /\ panicked' = FALSE
    /\ UNCHANGED <<hostVars, used, backing, index, persister, disk, happens, notifiers,
                   expiring, rmList, commits, now, stats, ager, verdict, reading, pending,
                   own, worker, ranged>>

\* s.RLock() at the head of a read: the goroutine waits until no writer
\* holds the lock
RLock(t) ==
    /\ threads[t].pc = "idle"
    /\ threads[t].done < MaxCalls
    /\ \A u \in 1..MaxThreads : ~Writer(u)
    /\ threads' = [threads EXCEPT ![t].pc = "reading", ![t].done = @ + 1]
    /\ calls' = <<>>
    /\ panicked' = FALSE
    /\ UNCHANGED <<hostVars, used, backing, index, persister, disk, happens, notifiers,
                   expiring, rmList, commits, now, stats, ager, verdict, reading, pending,
                   own, worker, ranged>>

\* the deferred s.RUnlock() of the read
RUnlock(t) ==
    /\ threads[t].pc = "reading"
    /\ threads' = [threads EXCEPT ![t] = [Idle EXCEPT !.done = threads[t].done]]
    /\ calls' = <<>>
    /\ panicked' = FALSE
    /\ UNCHANGED <<hostVars, used, backing, index, persister, disk, happens, notifiers,
                   expiring, rmList, commits, now, stats, ager, verdict, reading, pending,
                   own, worker, ranged>>

\* the host recovers from the panic of the call of t
Recover(t) ==
    /\ threads[t].pc = "unwound"
    /\ threads' = [threads EXCEPT ![t] = [Idle EXCEPT !.done = threads[t].done]]
    /\ calls' = <<>>
    /\ panicked' = FALSE
    /\ UNCHANGED <<hostVars, used, backing, index, persister, disk, happens, notifiers,
                   expiring, rmList, commits, now, stats, ager, verdict, reading, pending,
                   own, worker, ranged>>

\* Store.Persistent, called while no goroutine is in a call
Attach ==
    /\ \A u \in 1..MaxThreads : ~Writer(u) /\ ~Reader(u)
    /\ Persistent

\* ------------------------------------------------------------ age expirers
\* the answers of an ExpireFunc
ExpireFalse == "ExpireFalse"
ExpireTrue == "ExpireTrue"
ExpireNull == "ExpireNull"

\* what the predicates of ae.cb answer, in their order, for one item at one
\* time
Verdicts == UNION {[1..n -> {ExpireFalse, ExpireTrue, ExpireNull}] : n \in 0..MaxCb}

\* the longest time.Duration: longer than every threshold
maxDuration == MaxTime + MaxDur + 1

\* n.Sub(t) of package time; 0 is the zero time.Time, too far back for a
\* Duration, and Sub then yields the longest one
Sub(n, t) == IF t = 0 THEN maxDuration ELSE n - t

\* the loop of ageExpirer.IsExpired over ae.cb: the first answer that is not
\* ExpireNull, or ExpireNull when there is none
RECURSIVE decided(_)
decided(cb) ==
    IF Len(cb) = 0 THEN ExpireNull
    ELSE IF Head(cb) # ExpireNull THEN Head(cb)
    ELSE decided(Tail(cb))

\* mTime of both IsExpired: stats.Modified, or stats.Created when it is zero
mTimeOf(st) == IF st.Modified = 0 THEN st.Created ELSE st.Modified

\* aTime of both IsExpired: stats.Accessed, or mTime when it is zero
aTimeOf(st) == IF st.Accessed = 0 THEN mTimeOf(st) ELSE st.Accessed

\* the three ifs of ageExpirer.IsExpired on the times c, a and m
aged(ae, n, c, a, m) ==
    \/ ae.cTime # 0 /\ Sub(n, c) > ae.cTime
    \/ ae.aTime # 0 /\ Sub(n, a) > ae.aTime
    \/ ae.mTime # 0 /\ Sub(n, m) > ae.mTime

\* ageExpirer.IsExpired on the statistics as they are stored
ageExpirerIsExpiredStored(ae, cb, n, st) ==
    IF decided(cb) # ExpireNull THEN decided(cb) = ExpireTrue
    ELSE aged(ae, n, st.Created, st.Accessed, st.Modified)

\* ageExpirer.IsExpired
ageExpirerIsExpired(ae, cb, n, st) ==
    IF decided(cb) # ExpireNull THEN decided(cb) = ExpireTrue
    ELSE aged(ae, n, st.Created, aTimeOf(st), mTimeOf(st))

\* the three ifs of ageExpirerRequireAll.IsExpired on the times c, a and m:
\* expired stays true unless one of them sets it to false
reached(ae, n, c, a, m) ==
    /\ ~(ae.cTime # 0 /\ Sub(n, c) < ae.cTime)
    /\ ~(ae.aTime # 0 /\ Sub(n, a) < ae.aTime)
    /\ ~(ae.mTime # 0 /\ Sub(n, m) < ae.mTime)

\* the loop of ageExpirerRequireAll.IsExpired over ae.cb: ExpireFalse sets
\* expired to false, ExpireTrue sets it to true
RECURSIVE swayed(_, _)
swayed(expired, cb) ==
    IF Len(cb) = 0 THEN expired
    ELSE swayed(IF Head(cb) = ExpireFalse THEN FALSE
                ELSE IF Head(cb) = ExpireTrue THEN TRUE ELSE expired,
                Tail(cb))

\* ageExpirerRequireAll.IsExpired
ageExpirerRequireAllIsExpired(ae, cb, n, st) ==
    swayed(reached(ae, n, st.Created, aTimeOf(st), mTimeOf(st)), cb)

\* the thresholds AgeExpirer and AgeExpirerRequireAll are given
Agers == [cTime : 0..MaxDur, aTime : 0..MaxDur, mTime : 0..MaxDur]

\* the statistics the expirers are handed
StatsIn ==
    {[Created |-> c, Accessed |-> a, Modified |-> m, Reads |-> 0, Writes |-> 0] :
        c \in 0..MaxTime, a \in 0..MaxTime, m \in 0..MaxTime}

\* time passes
Tick ==
    /\ now < MaxTime
    /\ now' = now + 1
    /\ calls' = <<>>
    /\ panicked' = FALSE
    /\ UNCHANGED <<orderable, comparator, expirer, fielder, ticker, metaPersister, indexes,
                   cIndex, primaryKey, reversed, used, backing, index, persister, disk,
                   happens, notifiers, expiring, rmList, commits, stats, ager, verdict,
                   reading, pending, threads, own, worker, ranged>>

\* the store asks both age expirers about the item whose statistics are
\* stats[1], and the predicates answer cb
AskAge(cb) ==
    /\ verdict' = [cb |-> cb,
                   any |-> ageExpirerIsExpired(ager, cb, now, stats[1]),
                   all |-> ageExpirerRequireAllIsExpired(ager, cb, now, stats[1])]
    /\ calls' = <<>>
    /\ panicked' = FALSE
    /\ UNCHANGED <<orderable, comparator, expirer, fielder, ticker, metaPersister, indexes,
                   cIndex, primaryKey, reversed, used, backing, index, persister, disk,
                   happens, notifiers, expiring, rmList, commits, now, stats, ager,
                   reading, pending, threads, own, worker, ranged>>

\* ------------------------------------------------------------ traversal
\* the tree's items from position i down to the first
RECURSIVE descendAll(_, _)
descendAll(t, i) == IF i < 1 THEN <<>> ELSE <<t[i]>> \o descendAll(t, i - 1)

\* the tree's descending iteration from position i with the start item at:
\* an item not Less than at is passed over when one was already visited or
\* when at is Less than it
RECURSIVE descendFrom(_, _, _, _)
descendFrom(t, at, i, hit) ==
    IF i < 1 THEN <<>>
    ELSE IF ~Less(t[i].item, at) /\ (hit \/ Less(at, t[i].item))
         THEN descendFrom(t, at, i - 1, hit)
         ELSE <<t[i]>> \o descendFrom(t, at, i - 1, TRUE)

\* where the descending iteration starts: at the start item's equal when
\* find has one, else before the position find yields
descendStart(f) == IF f.found THEN f.at ELSE f.at - 1

\* s.backing.AscendRange(nil, nil): every wrapper, in tree order
AscendRange(t) == t

\* s.backing.AscendRange(&wrap{item: at}, nil): from the position find
\* yields for at
AscendRangeAt(t, at) == SubSeq(t, find(t, at).at, Len(t))

\* s.backing.DescendRange(nil, nil)
DescendRange(t) == descendAll(t, Len(t))

\* s.backing.DescendRange(&wrap{item: at}, nil)
DescendRangeAt(t, at) == descendFrom(t, at, descendStart(find(t, at)), FALSE)

\* Store.traverse with the iterator of Store.cbWrap: the wrappers of range
\* the callback is called on; the callback returns false on the items in
\* stops, and the walk ends with the first such call
RECURSIVE traverse(_, _)
traverse(range, stops) ==
    IF Len(range) = 0 THEN <<>>
    ELSE IF Head(range).item \in stops THEN <<Head(range)>>
    ELSE <<Head(range)>> \o traverse(Tail(range), stops)

\* Store.cbWrap: the Access happening sent before each call of the callback
RECURSIVE cbWrap(_)
cbWrap(visited) ==
    IF Len(visited) = 0 THEN <<>>
    ELSE <<happening("Access", Head(visited).item, Head(visited).item)>>
         \o cbWrap(Tail(visited))

\* a traversal that called the callback on the wrappers visited
Traversed(visited) ==
    /\ Len(happens) + Len(visited) <= QueueCap
    /\ happens' = happens \o Stamp(cbWrap(visited), commits)
    /\ calls' = <<>>
    /\ panicked' = FALSE
    /\ UNCHANGED <<cfgVars, used, backing, index, persister, disk, notifiers,
                   expiring, rmList, commits>>

\* Store.Ascend
Ascend(stops) == Traversed(traverse(AscendRange(backing), stops))

\* Store.AscendStarting
AscendStarting(at, stops) == Traversed(traverse(AscendRangeAt(backing, at), stops))

\* Store.Descend
Descend(stops) == Traversed(traverse(DescendRange(backing), stops))

\* Store.DescendStarting
DescendStarting(at, stops) == Traversed(traverse(DescendRangeAt(backing, at), stops))

\* the callbacks of the traversals: none stops, or one stops at an item
Stops == {{}} \cup {{item} : item \in Items}

\* ------------------------------------------------------------ index queries
\* Store.In: the descriptor of the index on fields, <<id>>, or <<>> for
\* the nil *Index it returns when there is none
In(fields) == IF Join(fields) \in DOMAIN indexes THEN <<Join(fields)>> ELSE <<>>

\* Index._id: "" for the nil *Index
idOf(idx) == IF Len(idx) = 0 THEN <<>> ELSE idx[1]

\* Index.find: the bucket of the joined keys, nil for the nil *Index, a
\* wrong number of keys, an index without a map and a key without a bucket
indexFind(idx, ks) ==
    IF Len(idx) = 0 THEN <<>>
    ELSE IF Len(ks) # Len(indexes[idx[1]].fields) THEN <<>>
    ELSE IF idx[1] \notin DOMAIN index THEN <<>>
    ELSE IF Join(ks) \notin DOMAIN index[idx[1]] THEN <<>>
    ELSE index[idx[1]][Join(ks)]

\* the items of the wrappers ws, in order
RECURSIVE itemsOf(_)
itemsOf(ws) == IF Len(ws) = 0 THEN <<>> ELSE <<Head(ws).item>> \o itemsOf(Tail(ws))

\* Index.Lookup: the items it returns
lookup(idx, ks) == itemsOf(indexFind(idx, ks))

\* Index.One: the item it returns
one(idx, ks) == IF Len(indexFind(idx, ks)) > 0 THEN indexFind(idx, ks)[1].item ELSE NoItem

\* Index.Each: the items the callback is called on; it returns false on
\* the items in stops
each(idx, ks, stops) == itemsOf(traverse(indexFind(idx, ks), stops))

\* Index.All: the wrappers whose items it returns, each uid once
all(idx) ==
    IF Len(idx) = 0 THEN {}
    ELSE IF idx[1] \notin DOMAIN index THEN {}
    ELSE UNION {{index[idx[1]][k][i] : i \in 1..Len(index[idx[1]][k])} :
                   k \in DOMAIN index[idx[1]]}

\* Index.FieldKey: the components it returns; on the nil *Index the read of
\* idx.fields is a nil dereference and the call panics
fieldKey(idx, a) ==
    IF Len(idx) = 0 THEN [panics |-> TRUE, key |-> <<>>]
    ELSE [panics |-> FALSE,
          key |-> [i \in 1..Len(indexes[idx[1]].fields) |->
                      GetField(a, indexes[idx[1]].fields[i])]]

\* Store.Keys: the keys of the map of the index In yields; the interface
\* value In returns is never nil, so the map is looked up under _id()
keysOf(fields) ==
    IF idOf(In(fields)) \notin DOMAIN index THEN {}
    ELSE DOMAIN index[idOf(In(fields))]

\* Store.IndexStats: key and count of every bucket of that map
indexStats(fields) ==
    IF idOf(In(fields)) \notin DOMAIN index THEN {}
    ELSE {[Key |-> k, Count |-> Len(index[idOf(In(fields))][k])] :
             k \in DOMAIN index[idOf(In(fields))]}

\* a query: it reads under the read lock and changes nothing
Query ==
    /\ calls' = <<>>
    /\ panicked' = FALSE
    /\ UNCHANGED <<cfgVars, used, backing, index, persister, disk, happens, notifiers,
                   expiring, rmList, commits>>

\* In(fields).Lookup(ks...)
Lookup(fields, ks) == Len(lookup(In(fields), ks)) >= 0 /\ Query

\* In(fields).One(ks...)
One(fields, ks) == one(In(fields), ks) \in Items \cup {NoItem} /\ Query

\* In(fields).Each(cb, ks...)
Each(fields, ks, stops) == Len(each(In(fields), ks, stops)) >= 0 /\ Query

\* In(fields).All()
All(fields) == Cardinality(all(In(fields))) >= 0 /\ Query

\* In(fields).FieldKey(a): a panic unwinds to the caller
FieldKey(fields, a) == fieldKey(In(fields), a).panics \in BOOLEAN /\ Query

\* Store.Keys(fields...)
Keys(fields) == Cardinality(keysOf(fields)) >= 0 /\ Query

\* Store.IndexStats(fields...)
IndexStats(fields) == Cardinality(indexStats(fields)) >= 0 /\ Query

\* the field lists and key lists a host may query with
FieldLists == {<<FB>>, <<FC>>, <<FB, FC>>, <<FC, FB>>}
KeyLists ==
    {<<>>} \cup {<<k>> : k \in BVals \cup CVals}
           \cup {<<k, l>> : k \in BVals \cup CVals, l \in BVals \cup CVals}

\* number of handlers registered so far
Subs == Len(notifiers["Insert"]) + Len(notifiers["Update"]) + Len(notifiers["Remove"])
        + Len(notifiers["Expiry"]) + Len(notifiers["Access"])

\* Store.On: the handler is appended to the list of its kind
On(event) ==
    /\ Subs < MaxSubs
    /\ notifiers' = [notifiers EXCEPT ![event] = Append(@, Subs + 1)]
    /\ calls' = <<>>
    /\ panicked' = FALSE
    /\ UNCHANGED <<cfgVars, used, backing, index, persister, disk, happens, expiring,
                   rmList, commits>>

\* Store.emit: the handlers of the happening's kind, called in list order
RECURSIVE emitLoop(_, _)
emitLoop(handlers, h) ==
    IF Len(handlers) = 0 THEN <<>>
    ELSE <<[handler |-> Head(handlers), event |-> h.event, old |-> h.old, new |-> h.new]>>
         \o emitLoop(Tail(handlers), h)

emit(h) == emitLoop(notifiers[h.event], h)

\* the happenings q, their commit numbers counted from commit number c
RECURSIVE Since(_, _)
Since(q, c) ==
    IF Len(q) = 0 THEN <<>>
    ELSE <<[Head(q) EXCEPT !.seq = @ - c]>> \o Since(Tail(q), c)

\* a dispatch worker that would take the store's read lock around
\* Store.emit: it waits while a writer holds the lock
DispatchLocked ==
    /\ \A u \in 1..MaxThreads : ~Writer(u)
    /\ Len(happens) > 0
    /\ calls' = emit(Head(happens))
    /\ panicked' = FALSE
    /\ happens' = Since(Tail(happens), Head(happens).seq)
    /\ commits' = commits - Head(happens).seq
    /\ UNCHANGED <<cfgVars, used, backing, index, persister, disk, notifiers, expiring,
                   rmList>>

\* one turn of the dispatch worker: receive the oldest happening and run
\* Store.emit on it; commit numbers are then counted from that happening's
Dispatch ==
    /\ Len(happens) > 0
    /\ calls' = emit(Head(happens))
    /\ panicked' = FALSE
    /\ happens' = Since(Tail(happens), Head(happens).seq)
    /\ commits' = commits - Head(happens).seq
    /\ UNCHANGED <<cfgVars, used, backing, index, persister, disk, notifiers, expiring,
                   rmList>>

\* one turn of the dispatch worker in which the k-th handler called panics:
\* the goroutine's loop (store.go:925-929) has no recover, so the panic
\* ends the goroutine, and with it the process
DispatchPanic(k) ==
    /\ Len(happens) > 0
    /\ k \in 1..Len(emit(Head(happens)))
    /\ calls' = SubSeq(emit(Head(happens)), 1, k)
    /\ panicked' = TRUE
    /\ worker' = "crashed"
    /\ happens' = Since(Tail(happens), Head(happens).seq)
    /\ commits' = commits - Head(happens).seq
    /\ UNCHANGED <<hostVars, used, backing, index, persister, disk, notifiers, expiring,
                   rmList, now, stats, ager, verdict, reading, pending, threads, own,
                   ranged>>

\* one receive of the dispatch worker whose handlers call back into the
\* store: the happening is taken off the channel and Store.emit starts
\* calling the handlers of its kind; the worker is inside a handler until
\* the handler's own call of the store has returned
Receive ==
    /\ worker = "ready"
    /\ Len(happens) > 0
    /\ calls' = emit(Head(happens))
    /\ panicked' = FALSE
    /\ worker' = IF Len(emit(Head(happens))) > 0 THEN "handling" ELSE "ready"
    /\ happens' = Since(Tail(happens), Head(happens).seq)
    /\ commits' = commits - Head(happens).seq
    /\ UNCHANGED <<hostVars, used, backing, index, persister, disk, notifiers, expiring,
                   rmList, now, stats, ager, verdict, reading, pending, threads, own,
                   ranged>>

\* Store.Get called by a handler, on the dispatch goroutine: as Get, the
\* send of the Access happening waits for room in the channel, whose only
\* receiver is the goroutine that is sending
HandlerGet(search) ==
    /\ worker = "handling"
    /\ get(backing, search) # Nil => Len(happens) < QueueCap
    /\ happens' = IF get(backing, search) # Nil
                  THEN happens \o Stamp(<<happening("Access", get(backing, search).item,
                                                    get(backing, search).item)>>, commits)
                  ELSE happens
    /\ calls' = <<>>
    /\ panicked' = FALSE
    /\ worker' = "ready"
    /\ UNCHANGED <<hostVars, used, backing, index, persister, disk, notifiers, expiring,
                   rmList, commits, now, stats, ager, verdict, reading, pending, threads,
                   own, ranged>>

\* the items a host may turn the stored item `item` into by assigning to
\* its indexed fields without changing how it orders
Changes(item) ==
    {to \in Items : /\ to # item
                    /\ to.a = item.a
                    /\ \A y \in Items : less(to, y) = less(item, y) /\ less(y, to) = less(y, item)}

\* the wrappers of idx at the places ps (<<index, key, position>>) hold the
\* item `to`
RECURSIVE held(_, _, _)
held(idx, ps, to) ==
    IF ps = {} THEN idx
    ELSE held([idx EXCEPT ![(CHOOSE p \in ps : TRUE)[1]] =
                  MapPut(@, (CHOOSE p \in ps : TRUE)[2],
                         [@[(CHOOSE p \in ps : TRUE)[2]] EXCEPT
                             ![(CHOOSE p \in ps : TRUE)[3]].item = to])],
              ps \ {CHOOSE p \in ps : TRUE}, to)

\* the host assigns to the fields of an item it has put: wrap.item is the
\* host's pointer, so the wrapper in the tree and in the buckets holds the
\* changed item, while wrap.values keeps the keys wrapIt took at the put
Mutate(i, to) ==
    /\ i \in 1..Len(backing)
    /\ to \in Changes(backing[i].item)
    /\ backing' = [backing EXCEPT ![i].item = to]
    /\ index' = held(index,
                     UNION {UNION {{<<id, k, j>> : j \in {n \in 1..Len(index[id][k]) :
                                                     index[id][k][n].uid = backing[i].uid}} :
                                   k \in DOMAIN index[id]} : id \in DOMAIN index},
                     to)
    /\ calls' = <<>>
    /\ panicked' = FALSE
    /\ UNCHANGED <<cfgVars, used, persister, disk, happens, notifiers, expiring, rmList,
                   commits>>

\* the default interval of Init's ticker (23272 ms): the longest interval
DefaultInterval == MaxInterval

\* the expiry goroutine of Init after its sleep: a store without a ticker
\* gets the default one, and `for range s.ticker.C` evaluates s.ticker.C,
\* once; the loop receives from that channel from then on
StartTicker ==
    /\ ranged.every = 0
    /\ ticker' = IF ticker = 0 THEN DefaultInterval ELSE ticker
    /\ ranged' = [every |-> IF ticker = 0 THEN DefaultInterval ELSE ticker,
                  due |-> now + (IF ticker = 0 THEN DefaultInterval ELSE ticker)]
    /\ calls' = <<>>
    /\ panicked' = FALSE
    /\ UNCHANGED <<orderable, comparator, expirer, fielder, metaPersister, indexes, cIndex,
                   primaryKey, reversed, used, backing, index, persister, disk, happens,
                   notifiers, expiring, rmList, commits, now, stats, ager, verdict, reading,
                   pending, threads, own, worker>>

\* time passes up to the next tick of the ticker the loop receives from
Elapse == (ranged.every > 0 => now < ranged.due) /\ Tick

\* a tick received by the loop: s.Expire() runs its scan (the host's
\* `expired` being e), and the ticker's next tick is one interval later
AutoExpire(e) ==
    /\ ranged.every > 0
    /\ now = ranged.due
    /\ ~expiring
    /\ expiring' = TRUE
    /\ rmList' = findExpired(backing, e)
    /\ ranged' = [ranged EXCEPT !.due = now + ranged.every]
    /\ calls' = <<>>
    /\ panicked' = FALSE
    /\ UNCHANGED <<hostVars, used, backing, index, persister, disk, happens, notifiers,
                   commits, now, stats, ager, verdict, reading, pending, threads, own,
                   worker>>

\* ------------------------------------------------------------ statistics
\* the Stats wrapIt gives a new wrapper at the time t
wrapStats(t) == [Created |-> t, Accessed |-> 0, Modified |-> t, Reads |-> 0, Writes |-> 0]

\* Stats.read
read(st, t) == [st EXCEPT !.Accessed = t, !.Reads = @ + 1]

\* Stats.written
written(st, t) == [st EXCEPT !.Modified = t, !.Writes = @ + 1]

\* the uids of the wrappers ws
uidsOf(ws) == {ws[i].uid : i \in 1..Len(ws)}

\* the statistics sts of the first n uids without those of the wrappers
\* that are not among uids: a wrapper out of the tree is garbage
RECURSIVE kept(_, _, _)
kept(sts, uids, n) ==
    IF n = 0 THEN <<>>
    ELSE Append(kept(sts, uids, n - 1), IF n \in uids THEN sts[n] ELSE NoStats)

\* the statistics after Store.addWrap put a fresh wrapper in place of the
\* one found: a new wrapper starts with the Stats wrapIt made at t
addWrapStatsFresh(sts, r, uid, t) ==
    [kept(sts, uidsOf(r.s.backing), MaxUID) EXCEPT ![uid] = written(wrapStats(t), t)]

\* the statistics after Store.addWrap: r is what it left for the wrapper uid
\* that wrapIt made at t; the wrapper takes over the Stats of the wrapper
\* ReplaceOrInsert found, and the write is counted
addWrapStats(sts, r, uid, t) ==
    [kept(sts, uidsOf(r.s.backing), MaxUID) EXCEPT
        ![uid] = written(IF r.ret.uid > 0 THEN sts[r.ret.uid] ELSE wrapStats(t), t)]

\* the statistics after stats.read(t) on each of the wrappers visited
RECURSIVE readAll(_, _, _)
readAll(sts, visited, t) ==
    IF Len(visited) = 0 THEN sts
    ELSE readAll([sts EXCEPT ![Head(visited).uid] = read(@, t)], Tail(visited), t)

\* what a read leaves that surfaced the wrappers visited: counted tells
\* whether it updates their statistics, sent whether it sends an Access
\* for each
surfaced(op, visited, counted, sent) ==
    [op |-> op,
     visited |-> visited,
     stats |-> IF counted THEN readAll(stats, visited, now) ELSE stats,
     out |-> IF sent THEN cbWrap(visited) ELSE <<>>]

\* the items the statistics are followed for: equal under the comparator
StatItems == {item \in Items : item.a = 1}

\* Store.Get
getRead(search) ==
    surfaced("Get", IF get(backing, search) = Nil THEN <<>> ELSE <<get(backing, search)>>,
             TRUE, TRUE)

\* Store.Ascend, AscendStarting, Descend and DescendStarting: cbWrap of an
\* Iterator
walkReads ==
    {surfaced("Ascend", traverse(AscendRange(backing), stops), TRUE, TRUE) : stops \in Stops}
    \cup {surfaced("Descend", traverse(DescendRange(backing), stops), TRUE, TRUE) :
             stops \in Stops}
    \cup {surfaced("AscendStarting", traverse(AscendRangeAt(backing, at), stops), TRUE, TRUE) :
             at \in StatItems, stops \in Stops}
    \cup {surfaced("DescendStarting", traverse(DescendRangeAt(backing, at), stops), TRUE,
                   TRUE) : at \in StatItems, stops \in Stops}

\* Store.Info: cbWrap of an InfoIterator, which sends nothing
infoReads ==
    {surfaced("Info", traverse(AscendRange(backing), stops), TRUE, FALSE) : stops \in Stops}

\* Index.Lookup, One and Each when no other read is under way: they update
\* the wrapper's counters and send nothing
indexReads ==
    UNION {{surfaced("Lookup", indexFind(In(fields), ks), TRUE, FALSE),
            surfaced("One", IF Len(indexFind(In(fields), ks)) > 0
                            THEN <<indexFind(In(fields), ks)[1]>> ELSE <<>>, TRUE, FALSE)}
           \cup {surfaced("Each", traverse(indexFind(In(fields), ks), stops), TRUE, FALSE) :
                    stops \in Stops} :
           fields \in {<<FB, FC>>}, ks \in {<<item.b, item.c>> : item \in StatItems}}

\* Index.All: it updates nothing and sends nothing
allReads ==
    {surfaced("All", CHOOSE p \in Perms(all(In(<<FB, FC>>))) : TRUE, FALSE, FALSE)}

\* the reads of the store
Reads ==
    {getRead(search) : search \in StatItems} \cup walkReads \cup infoReads
    \cup indexReads \cup allReads

\* a read: the statistics it updated are stored and the happenings it sent
\* are in the channel
Surface(r) ==
    /\ Len(happens) + Len(r.out) <= QueueCap
    /\ \A i \in 1..Len(r.visited) : stats[r.visited[i].uid].Reads < MaxReads
    /\ stats' = r.stats
    /\ happens' = happens \o Stamp(r.out, commits)
    /\ calls' = <<>>
    /\ panicked' = FALSE
    /\ UNCHANGED <<hostVars, pending, used, backing, index, persister, disk, notifiers, expiring,
                   rmList, commits, now, ager, verdict, reading, threads, own, worker,
                   ranged>>

\* Store.Put with the statistics of the wrappers; it waits for the index
\* reads under way, which hold the read lock
PutAt(item) ==
    /\ reading = <<>>
    /\ Free(Cur) # {}
    /\ ~wrapItPanics
    /\ \A u \in 1..MaxUID : stats[u].Writes < MaxWrites
    /\ \E ordW \in WrapOrders, ordA \in Perms(DOMAIN indexes) :
          /\ Commit(put(Cur, item, NewUID(Cur), ordW, ordA).s)
          /\ stats' = addWrapStats(stats,
                                   addWrap(Cur, wrapIt(item, NewUID(Cur), ordW), ordA),
                                   NewUID(Cur), now)
    /\ used' = TRUE
    /\ UNCHANGED <<hostVars, pending, persister, notifiers, expiring, rmList, now, ager, verdict,
                   reading, threads, own, worker, ranged>>

\* Store.Delete with the statistics of the wrappers
DeleteAt(search) ==
    /\ reading = <<>>
    /\ Commit(delete(Cur, search).s)
    /\ stats' = kept(stats, uidsOf(delete(Cur, search).s.backing), MaxUID)
    /\ UNCHANGED <<hostVars, pending, used, persister, notifiers, expiring, rmList, now, ager,
                   verdict, reading, threads, own, worker, ranged>>

\* Index.Each, One or Lookup reaches the wrapper w of a bucket: it stores
\* the time in the wrapper and loads the wrapper's read counter to increment
\* it, under the store's read lock and without the wrapper's mutex
IndexLoad(w) ==
    /\ Len(reading) < MaxReaders
    /\ stats[w.uid].Reads < MaxReads
    /\ reading' = Append(reading, [uid |-> w.uid, reads |-> stats[w.uid].Reads])
    /\ stats' = [stats EXCEPT ![w.uid].Accessed = now]
    /\ calls' = <<>>
    /\ panicked' = FALSE
    /\ UNCHANGED <<hostVars, pending, used, backing, index, persister, disk, happens, notifiers,
                   expiring, rmList, commits, now, ager, verdict, threads, own, worker,
                   ranged>>

\* the i-th of the index reads under way stores the counter it loaded, plus
\* one
IndexStore(i) ==
    /\ i \in 1..Len(reading)
    /\ stats' = [stats EXCEPT ![reading[i].uid].Reads = reading[i].reads + 1]
    /\ reading' = RemoveAt(reading, i)
    /\ calls' = <<>>
    /\ panicked' = FALSE
    /\ UNCHANGED <<hostVars, pending, used, backing, index, persister, disk, happens, notifiers,
                   expiring, rmList, commits, now, ager, verdict, threads, own, worker,
                   ranged>>

\* ------------------------------------------------------------ reading one's writes
\* simulatePutHandler: the goroutine's mdb.Put(x); Put has returned when
\* the step is over
OwnPut(item) ==
    /\ Free(Cur) # {}
    /\ ~wrapItPanics
    /\ \E ordW \in WrapOrders, ordA \in Perms(DOMAIN indexes) :
          Commit(put(Cur, item, NewUID(Cur), ordW, ordA).s)
    /\ used' = TRUE
    /\ own' = [put |-> <<item>>, got |-> <<>>]
    /\ UNCHANGED <<hostVars, persister, notifiers, expiring, rmList, now, stats, ager,
                   verdict, reading, pending, threads, worker, ranged>>

\* simulatePutHandler: the goroutine's y := mdb.Get(probe), probe equal to
\* the item it put
OwnGet(probe) ==
    /\ own.put # <<>>
    /\ own.got = <<>>
    /\ probe.a = own.put[1].a
    /\ get(backing, probe) # Nil => Len(happens) < QueueCap
    /\ happens' = IF get(backing, probe) # Nil
                  THEN happens \o Stamp(<<happening("Access", get(backing, probe).item,
                                                    get(backing, probe).item)>>, commits)
                  ELSE happens
    /\ own' = [own EXCEPT !.got = <<get(backing, probe).item>>]
    /\ calls' = <<>>
    /\ panicked' = FALSE
    /\ UNCHANGED <<hostVars, used, backing, index, persister, disk, notifiers, expiring,
                   rmList, commits, now, stats, ager, verdict, reading, pending, threads,
                   worker, ranged>>

\* ------------------------------------------------------------ calls outside the lock
\* the handlers registered and being registered
Registering == Subs + Cardinality({i \in 1..Len(pending) : pending[i].op = "On"})

\* Store.On reads the list of the kind to append to; it holds no lock
OnLoad(event) ==
    /\ Registering < MaxSubs
    /\ Len(pending) < MaxCallers
    /\ pending' = Append(pending, [op |-> "On", event |-> event, list |-> notifiers[event],
                                   handler |-> Registering + 1, call |-> Call("", <<>>)])
    /\ calls' = <<>>
    /\ panicked' = FALSE
    /\ UNCHANGED <<hostVars, used, backing, index, persister, disk, happens, notifiers,
                   expiring, rmList, commits, now, stats, ager, verdict, reading, threads,
                   own, worker, ranged>>

\* a configuration method (CreateIndex, Unique, PrimaryKey, Reversed) reads
\* s.used and finds it false; it holds no lock
UsedCheck(call) ==
    /\ ~used
    /\ Len(pending) < MaxCallers
    /\ pending' = Append(pending, [op |-> "Configure", event |-> "", list |-> <<>>,
                                   handler |-> 0, call |-> call])
    /\ calls' = <<>>
    /\ panicked' = FALSE
    /\ UNCHANGED <<hostVars, used, backing, index, persister, disk, happens, notifiers,
                   expiring, rmList, commits, now, stats, ager, verdict, reading, threads,
                   own, worker, ranged>>

\* the i-th of those calls writes: On the list it read with its handler
\* appended, a configuration method the descriptors
Store(i, c) ==
    /\ i \in 1..Len(pending)
    /\ pending' = RemoveAt(pending, i)
    /\ notifiers' = IF pending[i].op = "On"
                    THEN [notifiers EXCEPT ![pending[i].event] =
                             Append(pending[i].list, pending[i].handler)]
                    ELSE notifiers
    /\ indexes' = IF pending[i].op = "On" THEN indexes ELSE c.indexes
    /\ cIndex' = IF pending[i].op = "On" THEN cIndex ELSE c.cIndex
    /\ primaryKey' = IF pending[i].op = "On" THEN primaryKey ELSE c.primaryKey
    /\ reversed' = IF pending[i].op = "On" THEN reversed ELSE c.reversed
    /\ calls' = <<>>
    /\ panicked' = FALSE
    /\ UNCHANGED <<orderable, comparator, expirer, fielder, ticker, metaPersister, used,
                   backing, index, persister, disk, happens, expiring, rmList, commits,
                   now, stats, ager, verdict, reading, threads, own, worker, ranged>>

\* the write of the i-th call: the configuration method goes on from the
\* check it passed
StoreUnlocked(i) ==
    /\ i \in 1..Len(pending)
    /\ Store(i, Configured([Conf EXCEPT !.used = FALSE], pending[i].call))

\* the store without a backend and without handlers
Next ==
    \/ \E item \in Items : Put(item)
    \/ \E items \in Batches : PutAll(items)
    \/ \E search \in Items : Delete(search)
    \/ \E search \in Items : Get(search)
    \/ Dispatch

Spec == Init /\ [][Next]_vars

\* the store and its expiry passes
NextExpire ==
    \/ \E item \in Items : Put(item)
    \/ \E search \in Items : Delete(search)
    \/ \E e \in 1..MaxA : ExpireScan(e)
    \/ ExpireCommit
    \/ Dispatch

SpecExpire == Init /\ [][NextExpire]_vars

\* the stores that are not reversed, and their expiry passes
InitForward == Init /\ ~reversed

SpecExpireForward == InitForward /\ [][NextExpire]_vars

\* the store of self-ordering items with a backend: attached, written
\* through, loaded again
InitPersist == Init /\ orderable

NextPersist ==
    \/ Persistent
    \/ \E item \in Items : Put(item)
    \/ \E search \in Items : Delete(search)
    \/ Restart
    \/ Dispatch

SpecPersist == InitPersist /\ [][NextPersist]_vars

\* the store and its traversals
NextTraverse ==
    \/ \E item \in Items : Put(item)
    \/ \E search \in Items : Delete(search)
    \/ \E stops \in Stops : Ascend(stops)
    \/ \E stops \in Stops : Descend(stops)
    \/ \E at \in Items, stops \in Stops : AscendStarting(at, stops)
    \/ \E at \in Items, stops \in Stops : DescendStarting(at, stops)
    \/ Dispatch

SpecTraverse == Init /\ [][NextTraverse]_vars

\* the stores that are not reversed, and their traversals
SpecTraverseForward == InitForward /\ [][NextTraverse]_vars

\* the store and its index queries
NextIndex ==
    \/ \E item \in Items : Put(item)
    \/ \E search \in Items : Delete(search)
    \/ \E fields \in FieldLists, ks \in KeyLists : Lookup(fields, ks)
    \/ \E fields \in FieldLists, ks \in KeyLists : One(fields, ks)
    \/ \E fields \in FieldLists, ks \in KeyLists, stops \in Stops : Each(fields, ks, stops)
    \/ \E fields \in FieldLists : All(fields)
    \/ \E fields \in FieldLists, a \in Items : FieldKey(fields, a)
    \/ \E fields \in FieldLists : Keys(fields)
    \/ \E fields \in FieldLists : IndexStats(fields)
    \/ Dispatch

SpecIndex == Init /\ [][NextIndex]_vars

\* the stores that are not reversed, and their index queries
SpecIndexForward == InitForward /\ [][NextIndex]_vars

\* the store and its configuration calls, before and after its first use
NextConfig ==
    \/ \E call \in Calls : Configure(call)
    \/ Persistent
    \/ \E item \in Items : Put(item)
    \/ \E search \in Items : Delete(search)
    \/ Dispatch

\* the store of TestUnique, of self-ordering items
InitConfig == InitPersist /\ Len(primaryKey) = 0 /\ Cardinality(DOMAIN indexes) = 2

SpecConfig == InitConfig /\ [][NextConfig]_vars

\* the store of TestUnique and its setters, before and after its first use
NextSetters ==
    \/ \E indexer \in BOOLEAN : SetIndexer(indexer)
    \/ \E c \in BOOLEAN : SetComparator(c)
    \/ \E e \in BOOLEAN : SetExpirer(e)
    \/ \E f \in BOOLEAN : SetFielder(f)
    \/ \E interval \in 1..MaxInterval : ExpireInterval(interval)
    \/ \E item \in Items : Put(item)
    \/ \E search \in Items : Delete(search)
    \/ Dispatch

SpecSetters == InitConfig /\ [][NextSetters]_vars

\* the store of TestUnique, of self-ordering items, with a backend with
\* metadata (as the mock Storage of the tests) whose calls may fail
InitBackend ==
    /\ InitStore
    /\ orderable
    /\ Len(primaryKey) = 0
    /\ Cardinality(DOMAIN indexes) = 2
    /\ metaPersister = TRUE

NextFailing ==
    \/ Persistent
    \/ \E item \in Items : Put(item)
    \/ \E item \in Items : PutFailing(item)
    \/ \E search \in Items : DeleteFailing(search)
    \/ Dispatch

SpecFailing == InitBackend /\ [][NextFailing]_vars

\* the store of TestCompound with a metadata backend, and its batches
InitBatch ==
    /\ InitStore
    /\ orderable
    /\ Len(primaryKey) = 0
    /\ Cardinality(DOMAIN indexes) = 1
    /\ metaPersister = TRUE

NextBatch ==
    \/ Persistent
    \/ \E items \in Batches : PutAll(items)
    \/ \E items \in Batches : PutAllFailing(items)
    \/ Dispatch

SpecBatch == InitBatch /\ [][NextBatch]_vars

\* the age expirers of a host, asked about an item as time passes
InitAge ==
    /\ InitFields
    /\ orderable
    /\ ~reversed
    /\ Cardinality(DOMAIN indexes) = 1
    /\ metaPersister = FALSE
    /\ now = 1
    /\ \E st \in StatsIn : stats = <<st>> \o Blank(MaxUID - 1)
    /\ ager \in Agers
    /\ verdict = <<>>
    /\ reading = <<>>
    /\ pending = <<>>
    /\ threads = Waiting(MaxThreads)
    /\ own = [put |-> <<>>, got |-> <<>>]
    /\ worker = "ready"
    /\ ranged = [every |-> 0, due |-> 0]

NextAge ==
    \/ Tick
    \/ \E cb \in Verdicts : AskAge(cb)

SpecAge == InitAge /\ [][NextAge]_vars

\* the store of TestCompound, its wrappers' statistics and the clock
InitStats ==
    /\ Init
    /\ orderable
    /\ ~reversed
    /\ Cardinality(DOMAIN indexes) = 1

NextStats ==
    \/ Tick
    \/ \E item \in StatItems : PutAt(item)
    \/ \E search \in StatItems : DeleteAt(search)
    \/ \E r \in Reads : Surface(r)
    \/ Dispatch

SpecStats == InitStats /\ [][NextStats]_vars

\* that store read by several threads at once
NextRace ==
    \/ Tick
    \/ \E item \in StatItems : PutAt(item)
    \/ \E search \in StatItems : Surface(getRead(search))
    \/ \E w \in all(In(<<FB, FC>>)) : IndexLoad(w)
    \/ \E i \in 1..MaxReaders : IndexStore(i)
    \/ Dispatch

SpecRace == InitStats /\ [][NextRace]_vars

\* the store of TestCompound with a metadata backend, written and read by
\* several goroutines
NextLocked ==
    \/ Attach
    \/ \E t \in 1..MaxThreads : \E call \in WriteCalls : Lock(t, call)
    \/ \E t \in 1..MaxThreads : Tree(t)
    \/ \E t \in 1..MaxThreads : Buckets(t)
    \/ \E t \in 1..MaxThreads : Unlock(t)
    \/ \E t \in 1..MaxThreads : RLock(t)
    \/ \E t \in 1..MaxThreads : RUnlock(t)
    \/ \E t \in 1..MaxThreads : Recover(t)
    \/ Dispatch

SpecLocked == InitBatch /\ [][NextLocked]_vars

\* the reversed stores
InitReversed == Init /\ reversed

SpecReversed == InitReversed /\ [][Next]_vars

\* the stores of TestUnique and TestReversed with handlers: the operations
\* that commit a mutation, the registrations and the dispatch worker
InitEvents ==
    /\ Init
    /\ orderable
    /\ reversed \/ (Len(primaryKey) = 0 /\ Cardinality(DOMAIN indexes) = 2)

\* the kinds the host registers handlers for
Watched == {"Update", "Expiry"}

NextEvents ==
    \/ \E event \in Watched : On(event)
    \/ \E item \in Items : Put(item)
    \/ \E search \in Items : Delete(search)
    \/ \E e \in 1..MaxA : ExpireScan(e)
    \/ ExpireCommit
    \/ Dispatch

SpecEvents == InitEvents /\ [][NextEvents]_vars

\* the store of TestUnique while threads register handlers, configure and
\* put at the same time
NextUnlocked ==
    \/ \E event \in Watched : OnLoad(event)
    \/ \E call \in Calls : UsedCheck(call)
    \/ \E i \in 1..MaxCallers : StoreUnlocked(i)
    \/ \E item \in StatItems : Put(item)
    \/ Dispatch

SpecUnlocked == InitConfig /\ [][NextUnlocked]_vars

\* testSimulate, on the store of TestUnique: one goroutine puts an item
\* and gets it, the others put, delete, expire and read
NextSimulate ==
    \/ \E item \in Items : OwnPut(item)
    \/ \E probe \in Items : OwnGet(probe)
    \/ \E item \in Written : Put(item)
    \/ \E search \in Written : Delete(search)
    \/ \E search \in Written : Get(search)
    \/ \E e \in 1..MaxA : ExpireScan(e)
    \/ ExpireCommit
    \/ Dispatch

SpecSimulate == InitConfig /\ [][NextSimulate]_vars

\* the store of TestUnique with handlers that may panic; nothing runs once
\* the process has crashed
NextPanics ==
    \/ worker = "ready" /\ \E event \in Watched : On(event)
    \/ worker = "ready" /\ \E item \in Items : Put(item)
    \/ worker = "ready" /\ \E search \in Items : Delete(search)
    \/ worker = "ready" /\ Dispatch
    \/ worker = "ready" /\ \E k \in 1..MaxSubs : DispatchPanic(k)

SpecPanics == InitConfig /\ [][NextPanics]_vars

\* the store of TestUnique with handlers that return, written and read by
\* several goroutines: a goroutine in a call goes on with it, and so does
\* the dispatch worker, whenever it can
\* the calls of the producers: Put and Delete of one item
LiveCalls == {call \in WriteCalls : call.op # "PutAll"}

NextLive ==
    \/ \E event \in Watched : On(event)
    \/ \E t \in 1..MaxThreads : \E call \in LiveCalls : Lock(t, call)
    \/ \E t \in 1..MaxThreads : Tree(t)
    \/ \E t \in 1..MaxThreads : Buckets(t)
    \/ \E t \in 1..MaxThreads : Unlock(t)
    \/ \E t \in 1..MaxThreads : RLock(t)
    \/ \E t \in 1..MaxThreads : RUnlock(t)
    \/ Dispatch

\* a goroutine holding the lock goes on running: each of its steps is taken
\* once it stays possible (weak fairness; for Tree the condition is spelled
\* out, its guard being exactly when the step can be taken), and the
\* dispatch goroutine of Init receives whenever the channel is not empty
FairLive ==
    /\ WF_vars(Dispatch)
    /\ \A t \in 1..MaxThreads :
          /\ <>[](threads[t].pc = "locked" /\ threads[t].i <= Len(threads[t].items))
                => []<><<Tree(t)>>_vars
          /\ WF_vars(Buckets(t))
          /\ WF_vars(Unlock(t))
          /\ WF_vars(RUnlock(t))

SpecLive == InitConfig /\ [][NextLive]_vars /\ FairLive

\* the item the handlers look up
Sought == CHOOSE item \in Written : TRUE

\* handlers that call Get(Sought) of the store they are registered on, with
\* other goroutines putting, deleting and getting meanwhile
NextReentrant ==
    \/ \E event \in Watched : On(event)
    \/ \E item \in Written : Put(item)
    \/ \E item \in Written : Delete(item)
    \/ \E item \in Written : Get(item)
    \/ Receive
    \/ HandlerGet(Sought)

\* the worker receives when it can, and a handler's call goes on when it can
FairReentrant ==
    /\ WF_vars(Receive)
    /\ WF_vars(HandlerGet(Sought))

SpecReentrant == InitConfig /\ [][NextReentrant]_vars /\ FairReentrant

\* the store whose host changes the items it has put
NextMutate ==
    \/ \E item \in Items : Put(item)
    \/ \E search \in Items : Delete(search)
    \/ \E i \in 1..MaxA, to \in Items : Mutate(i, to)
    \/ Dispatch

SpecMutate == Init /\ [][NextMutate]_vars

\* the stores that are not reversed, with such a host
SpecMutateForward == InitForward /\ [][NextMutate]_vars

\* the store of TestUnique and its automatic expiry passes
NextTicker ==
    \/ StartTicker
    \/ \E interval \in 1..MaxInterval : ExpireInterval(interval)
    \/ Elapse
    \/ \E e \in 1..MaxA : AutoExpire(e)
    \/ ExpireCommit
    \/ \E item \in Written : Put(item)
    \/ Dispatch

SpecTicker == InitConfig /\ [][NextTicker]_vars

\* ------------------------------------------------------------ claims
\* a and b are equal under the comparator: neither orders before the other
Equal(a, b) == ~less(a, b) /\ ~less(b, a)

\* the positions of the tree t whose item is equal to `item`
Equals(t, item) == {i \in 1..Len(t) : Equal(t[i].item, item)}

\* the uids of the wrappers in the tree t
TreeUIDs(t) == {t[i].uid : i \in 1..Len(t)}

\* the places <<key, position>> of the index map m (of one index) that hold
\* the wrapper uid
Places(m, uid) ==
    {p \in UNION {{<<k, i>> : i \in 1..Len(m[k])} : k \in DOMAIN m} : m[p[1]][p[2]].uid = uid}

\* the uids of the wrappers in the buckets of the index maps idx
BucketUIDs(idx) ==
    UNION {UNION {{idx[id][k][i].uid : i \in 1..Len(idx[id][k])} : k \in DOMAIN idx[id]} :
           id \in DOMAIN idx}

\* C1: the tree and the indexes agree.  Every wrapper in the tree is in
\* every index exactly once, in the bucket of the key it recorded for that
\* index, and every wrapper in a bucket is in the tree.
C1_TreeAndIndexesAgree ==
    /\ \A i \in 1..Len(backing) : \A id \in DOMAIN indexes :
          /\ id \in DOMAIN index
          /\ \E p \in Places(index[id], backing[i].uid) :
                /\ Places(index[id], backing[i].uid) = {p}
                /\ p[1] = backing[i].values[indexes[id].n + 1]
    /\ BucketUIDs(index) \subseteq TreeUIDs(backing)

\* C2: in a unique index every bucket holds at most one wrapper, and the
\* tree holds no second wrapper with that key: the earlier occupants are
\* gone from the whole store.
C2_UniqueBuckets ==
    \A id \in DOMAIN indexes : indexes[id].unique =>
        /\ id \in DOMAIN index => \A k \in DOMAIN index[id] : Len(index[id][k]) <= 1
        /\ \A i, j \in 1..Len(backing) :
              backing[i].values[indexes[id].n + 1] = backing[j].values[indexes[id].n + 1]
                  => i = j
        /\ \A i \in 1..Len(backing) :
              /\ id \in DOMAIN index
              /\ backing[i].values[indexes[id].n + 1] \in DOMAIN index[id]
              /\ index[id][backing[i].values[indexes[id].n + 1]] = <<backing[i]>>

\* C3: in every configuration, once items are put, get with a probe equal
\* to a stored item returns that stored item, and get with a probe equal
\* to no stored item returns null.
C3_GetAfterPut ==
    \A p \in Items :
        IF Equals(backing, p) = {} THEN get(backing, p) = Nil
        ELSE get(backing, p).uid \in {backing[i].uid : i \in Equals(backing, p)}

\* the wrappers of the tree that are not in the fields s an operation
\* leaves: the wrappers it took out of the tree
Gone(s) == {backing[i] : i \in 1..Len(backing)} \ {s.backing[i] : i \in 1..Len(s.backing)}

\* the puts the store can run: the item, the uid its wrapper is given and
\* the orders in which s.indexes is iterated
Puts ==
    IF Free(Cur) = {} \/ wrapItPanics THEN {}
    ELSE {[item |-> item, ordW |-> ordW, ordA |-> ordA] :
             item \in Items, ordW \in WrapOrders, ordA \in Perms(DOMAIN indexes)}

\* the outcome of Store.Put run as p on the store as it is
Ran(p) == put(Cur, p.item, NewUID(Cur), p.ordW, p.ordA)

\* C4: a put of an item equal to a stored item returns that stored item,
\* leaves len unchanged and makes get return the new item; a put of an
\* item equal to no stored item returns null and adds one to len.
C4_PutReplaces ==
    \A p \in Puts :
        IF Equals(backing, p.item) # {}
        THEN /\ Ran(p).old \in {backing[i].item : i \in Equals(backing, p.item)}
             /\ Len(Ran(p).s.backing) = Len(backing)
             /\ get(Ran(p).s.backing, p.item).item = p.item
        ELSE /\ Ran(p).old = NoItem
             /\ Len(Ran(p).s.backing) = Len(backing) + 1

\* C5: delete of a probe equal to a stored item removes that item from the
\* tree and from every index, returns it and sends exactly one Remove
\* carrying it, and get with the probe then returns null; a put of an equal
\* item is then an insertion (Insert, len + 1); delete of a probe equal to
\* no stored item returns null, sends nothing and changes nothing.
C5_Delete ==
    \A search \in Items :
        LET r == delete(Cur, search)
        IN  IF Equals(backing, search) # {}
            THEN /\ r.old \in {backing[i].item : i \in Equals(backing, search)}
                 /\ \E w \in Gone(r.s) :
                       /\ Gone(r.s) = {w}
                       /\ w.item = r.old
                       /\ w.uid \notin BucketUIDs(r.s.index)
                 /\ Len(r.s.backing) = Len(backing) - 1
                 /\ r.s.out = <<happening("Remove", r.old, NoItem)>>
                 /\ get(r.s.backing, search) = Nil
                 /\ \A item \in Items, ordW \in WrapOrders, ordA \in Perms(DOMAIN indexes) :
                       Equal(item, search) /\ Free(r.s) # {} /\ ~wrapItPanics =>
                           LET q == put([r.s EXCEPT !.out = <<>>], item, NewUID(r.s),
                                        ordW, ordA)
                           IN  /\ q.s.out = <<happening("Insert", NoItem, item)>>
                               /\ Len(q.s.backing) = Len(r.s.backing) + 1
            ELSE /\ r.old = NoItem
                 /\ r.s = Cur

\* C6: with a backend attached, the backend holds exactly one record per
\* wrapper in the tree, under that wrapper's uid and holding its item, and
\* no other record.
C6_BackendMirrorsTree ==
    persister =>
        disk = {[uid |-> backing[i].uid, item |-> backing[i].item] : i \in 1..Len(backing)}

\* C7: attaching the backend to a new store with the same configuration
\* yields the first store's items: the same len, and position by position
\* in ascending order an item equal under the comparator.
C7_RoundTrip ==
    [][Restart =>
          /\ Len(backing') = Len(backing)
          /\ \A i \in 1..Len(backing) :
                i <= Len(backing') /\ Equal(backing'[i].item, backing[i].item)]_vars

\* the wrappers the put p takes out of the tree that are not equal to its
\* item: the occupants it evicts from a unique index
Evicted(p) == {w \in Gone(Ran(p).s) : ~Equal(w.item, p.item)}

\* the wrappers the put p takes out of the tree that are equal to its item
Replaced(p) == {w \in Gone(Ran(p).s) : Equal(w.item, p.item)}

\* the put p sends one Insert when no stored item is equal to its item,
\* and one Update carrying the stored equal when there is one
PutSends(p) ==
    IF Equals(backing, p.item) = {}
    THEN Ran(p).s.out = <<happening("Insert", NoItem, p.item)>>
    ELSE \E i \in Equals(backing, p.item) :
            Ran(p).s.out = <<happening("Update", backing[i].item, p.item)>>

\* a delete of `search` sends one Remove carrying the stored equal, or
\* nothing when there is none
DeleteSends(search) ==
    IF Equals(backing, search) # {}
    THEN \E i \in Equals(backing, search) :
            delete(Cur, search).s.out = <<happening("Remove", backing[i].item, NoItem)>>
    ELSE delete(Cur, search).s.out = <<>>

\* the commit of a running expiry pass sends one Expiry for each item it
\* takes out of the tree and nothing else
ExpireSends ==
    LET s == expireLoop(Cur, rmList)
    IN  /\ Len(s.out) = Cardinality(Gone(s))
        /\ \A w \in Gone(s) :
              \E i \in 1..Len(s.out) : s.out[i] = happening("Expiry", w.item, NoItem)

\* the dispatch of the happening h calls every handler registered for its
\* kind once, with the happening, in registration order, and no other
\* handler
DispatchCalls(h) ==
    LET called == emit(h)
        mine == notifiers[h.event]
    IN  /\ Len(called) = Len(mine)
        /\ \A i \in 1..Len(called) :
              /\ i <= Len(mine) /\ called[i].handler = mine[i]
              /\ called[i].event = h.event
              /\ called[i].old = h.old
              /\ called[i].new = h.new
        /\ \A i, j \in 1..Len(called) : i < j => called[i].handler < called[j].handler
        /\ \A k \in Kinds \ {h.event} : \A j \in 1..Len(notifiers[k]) :
              \A i \in 1..Len(called) : called[i].handler # notifiers[k][j]

PutTells(p) ==
    IF Replaced(p) = {}
    THEN Ran(p).s.out = <<happening("Insert", NoItem, p.item)>>
    ELSE \E w \in Replaced(p) :
            /\ Replaced(p) = {w}
            /\ Ran(p).s.out = <<happening("Update", w.item, p.item)>>

\* a delete of `search` sends one Remove carrying the item it removes, or
\* nothing when it removes none
DeleteTells(search) ==
    IF Gone(delete(Cur, search).s) = {}
    THEN delete(Cur, search).s.out = <<>>
    ELSE \E w \in Gone(delete(Cur, search).s) :
            /\ Gone(delete(Cur, search).s) = {w}
            /\ delete(Cur, search).s.out = <<happening("Remove", w.item, NoItem)>>

C9_EvictionUpdates ==
    \A p \in Puts : Evicted(p) # {} =>
        /\ \A w \in Evicted(p) :
              Cardinality({i \in 1..Len(Ran(p).s.out) :
                              Ran(p).s.out[i] = happening("Update", w.item, p.item)}) = 1
        /\ Replaced(p) = {} =>
              \A i \in 1..Len(Ran(p).s.out) : Ran(p).s.out[i].event # "Insert"

\* C10: happenings are delivered in the order their critical sections
\* committed: every happening waiting in the channel was committed no
\* earlier than the last one delivered, and the channel holds them in
\* commit order.
C10_CommitOrder ==
    \A i \in 1..Len(happens) :
        /\ happens[i].seq >= 0
        /\ i > 1 => happens[i - 1].seq <= happens[i].seq

\* a handler has just been called while happenings of a later critical
\* section wait in the channel
C10_Witness ==
    /\ Len(calls) > 0
    /\ \E i \in 1..Len(happens) : happens[i].seq > 0

\* the wrappers of a list
Wrappers(list) == {list[i] : i \in 1..Len(list)}

\* C11: an expiry pass that nothing interrupts removes from the tree and
\* from every index exactly the items that are expired, leaves the others
\* where they are, sends one Expiry per removed item and returns their
\* number; the same pass repeated at once removes nothing and returns 0.
C11_ExpirePass ==
    \A e \in 1..MaxA :
        LET s == expireLoop(Cur, findExpired(backing, e))
        IN  /\ Gone(s) = {w \in Wrappers(backing) : IsExpired(w.item, e)}
            /\ Wrappers(s.backing) = {w \in Wrappers(backing) : ~IsExpired(w.item, e)}
            /\ BucketUIDs(s.index) \cap {w.uid : w \in Gone(s)} = {}
            /\ Len(s.out) = Cardinality(Gone(s))
            /\ \A w \in Gone(s) :
                  \E i \in 1..Len(s.out) : s.out[i] = happening("Expiry", w.item, NoItem)
            /\ expireCount(findExpired(backing, e)) = Cardinality(Gone(s))
            /\ expireCount(findExpired(s.backing, e)) = 0
            /\ expireLoop(s, findExpired(s.backing, e)) = s

\* C12: the commit of an expiry pass takes out of the tree only wrappers
\* its scan collected, and sends an Expiry for those only: a collected
\* wrapper that is gone is skipped, an item put after the scan stays.
C12_CommitRemovesCollected ==
    expiring =>
        /\ Gone(expireLoop(Cur, rmList)) \subseteq Wrappers(rmList)
        /\ \A i \in 1..Len(expireLoop(Cur, rmList).out) :
              \E w \in Wrappers(rmList) \cap Wrappers(backing) :
                  expireLoop(Cur, rmList).out[i] = happening("Expiry", w.item, NoItem)

\* C13: an expiry pass returns the number of items it removed, which is
\* the number of Expiry happenings it sent, whatever happened between its
\* scan and its commit.
C13_ExpireReturnsRemoved ==
    expiring =>
        /\ expireCount(rmList) = Cardinality(Gone(expireLoop(Cur, rmList)))
        /\ expireCount(rmList) = Len(expireLoop(Cur, rmList).out)

\* the wrappers of v are in strictly increasing order of Store.Less
Increasing(v) ==
    \A i \in 1..(Len(v) - 1) :
        Less(v[i].item, v[i + 1].item) /\ ~Less(v[i + 1].item, v[i].item)

\* the wrappers of v are in strictly decreasing order of Store.Less
Decreasing(v) ==
    \A i \in 1..(Len(v) - 1) :
        Less(v[i + 1].item, v[i].item) /\ ~Less(v[i].item, v[i + 1].item)

\* the calls v of a traversal whose callback returns false on stops are
\* calls on stored items, each at most once, the first false call is the
\* last call, and without a false call there are as many calls as items
WalkedOnce(v, stops) ==
    /\ Wrappers(v) \subseteq Wrappers(backing)
    /\ Cardinality(Wrappers(v)) = Len(v)
    /\ \A i \in 1..Len(v) : v[i].item \in stops => i = Len(v)
    /\ (\A i \in 1..Len(v) : v[i].item \notin stops) => Len(v) = Len(backing)

\* C14: Ascend calls the callback on the stored items in strictly
\* increasing order of the comparator, Descend in strictly decreasing
\* order, each item at most once; the walk ends with the first call that
\* returns false, and when none does the number of calls is Len().
C14_AscendDescend ==
    \A stops \in Stops :
        /\ Increasing(traverse(AscendRange(backing), stops))
        /\ Decreasing(traverse(DescendRange(backing), stops))
        /\ WalkedOnce(traverse(AscendRange(backing), stops), stops)
        /\ WalkedOnce(traverse(DescendRange(backing), stops), stops)

\* the calls v are on exactly the wrappers of the set ws, each once, every
\* one ordered by Store.Less before the next when up, after it when not
VisitsInOrder(v, ws, up) ==
    /\ Wrappers(v) = ws
    /\ Len(v) = Cardinality(ws)
    /\ \A i \in 1..(Len(v) - 1) :
          IF up THEN Less(v[i].item, v[i + 1].item) ELSE Less(v[i + 1].item, v[i].item)

\* when an item equal to at is stored, the first call of v is on such an item
EqualFirst(v, at) ==
    Equals(backing, at) # {} => Len(v) > 0 /\ Equal(v[1].item, at)

\* C15: AscendStarting(at, cb) visits exactly the stored items not less
\* than at, in increasing order; DescendStarting(at, cb) visits exactly
\* those not greater than at, in decreasing order, whether or not an item
\* equal to at is stored; a stored item equal to at is visited first.
C15_StartingAt ==
    \A at \in Items :
        /\ VisitsInOrder(traverse(AscendRangeAt(backing, at), {}),
                         {w \in Wrappers(backing) : ~Less(w.item, at)}, TRUE)
        /\ VisitsInOrder(traverse(DescendRangeAt(backing, at), {}),
                         {w \in Wrappers(backing) : ~Less(at, w.item)}, FALSE)
        /\ EqualFirst(traverse(AscendRangeAt(backing, at), {}), at)
        /\ EqualFirst(traverse(DescendRangeAt(backing, at), {}), at)

\* the calls v are in the opposite of the comparator's order: none is
\* ordered by the unreversed comparator before the next
Opposite(v) == \A i \in 1..(Len(v) - 1) : ~less(v[i].item, v[i + 1].item)

\* C16: with reversed set, Ascend yields the opposite order, and reversal
\* does not change which items are equal: an item equal to a stored item
\* still replaces it on put, and is found by get and by delete.
C16_ReversedKeepsEquality ==
    reversed =>
        /\ Opposite(traverse(AscendRange(backing), {}))
        /\ \A item \in Items : Equals(backing, item) # {} =>
              /\ get(backing, item) # Nil
              /\ delete(Cur, item).old # NoItem
        /\ \A p \in Puts : Equals(backing, p.item) # {} => Replaced(p) # {}

\* the wrappers of the tree whose recorded key for the index id is the
\* joined keys ks
Members(id, ks) ==
    {w \in Wrappers(backing) :
        Len(ks) = Len(indexes[id].fields) /\ w.values[indexes[id].n + 1] = Join(ks)}

\* C17: In(fields).Lookup(keys) returns exactly the stored items whose
\* recorded compound key for that index is the keys joined in field order,
\* each once; One(keys) returns one of them, or nil when there is none;
\* Each(cb, keys) calls cb on them only.
C17_Lookup ==
    \A id \in DOMAIN indexes : \A ks \in KeyLists :
        /\ Wrappers(indexFind(In(indexes[id].fields), ks)) = Members(id, ks)
        /\ Len(lookup(In(indexes[id].fields), ks)) = Cardinality(Members(id, ks))
        /\ lookup(In(indexes[id].fields), ks) = itemsOf(indexFind(In(indexes[id].fields), ks))
        /\ IF Members(id, ks) = {}
           THEN one(In(indexes[id].fields), ks) = NoItem
           ELSE one(In(indexes[id].fields), ks) \in {w.item : w \in Members(id, ks)}
        /\ \A stops \in Stops :
              \A i \in 1..Len(each(In(indexes[id].fields), ks, stops)) :
                  each(In(indexes[id].fields), ks, stops)[i] \in {w.item : w \in Members(id, ks)}

\* the queries on the index idx with the keys ks yield nil or nothing, and
\* Each calls no callback
NoResult(idx, ks) ==
    /\ Len(lookup(idx, ks)) = 0
    /\ one(idx, ks) = NoItem
    /\ \A stops \in Stops : Len(each(idx, ks, stops)) = 0

\* C18: a query on an index that was never created, with a number of keys
\* other than the index's number of fields, or with a key that has no
\* bucket is benign: Lookup, One, Each, All, FieldKey, Keys and IndexStats
\* return nil or nothing, never fail, and never return another index's
\* data.
C18_BenignQueries ==
    /\ \A fields \in FieldLists : Len(In(fields)) = 0 =>
          /\ \A ks \in KeyLists : NoResult(In(fields), ks)
          /\ all(In(fields)) = {}
          /\ \A a \in Items : ~fieldKey(In(fields), a).panics
          /\ keysOf(fields) = {}
          /\ indexStats(fields) = {}
    /\ \A id \in DOMAIN indexes : \A ks \in KeyLists :
          \/ Len(ks) # Len(indexes[id].fields)
          \/ id \notin DOMAIN index
          \/ Join(ks) \notin DOMAIN index[id]
          => NoResult(In(indexes[id].fields), ks)

\* C19: once used is true, CreateIndex, Unique, PrimaryKey, Reversed and
\* Persistent each panic and leave the index descriptors, the unique
\* flags, the primary key, the reversed flag and the backend exactly as
\* they were before the call.
C19_ConfigAfterUse ==
    /\ [](used => \A call \in Calls : Configured(Conf, call) = panic(Conf))
    /\ [][used => /\ UNCHANGED <<cfgVars, persister>>
                  /\ panicked' => UNCHANGED <<used, backing, index, disk, happens>>]_vars

\* a configuration call has panicked on a store that holds an item
C19_Witness == used /\ panicked /\ Len(backing) > 0

\* C20: SetIndexer, SetComparator, SetExpirer, SetFielder and
\* ExpireInterval, called once used is true, fail and leave the comparator,
\* the indexer, the expirer, the fielder and the expiry interval unchanged.
C20_SettersAfterUse ==
    [][used => UNCHANGED <<comparator, expirer, fielder, ticker>>]_vars

\* the wrapper uid is in the tree t and, for every index, in the bucket of
\* the key of item in the index maps idx
Applied(t, idx, uid, item) ==
    /\ uid \in TreeUIDs(t)
    /\ \A id \in DOMAIN indexes :
          /\ id \in DOMAIN idx
          /\ getFieldsValue(item, indexes[id].fields) \in DOMAIN idx[id]
          /\ \E i \in 1..Len(idx[id][getFieldsValue(item, indexes[id].fields)]) :
                idx[id][getFieldsValue(item, indexes[id].fields)][i].uid = uid

\* the outcome o of a put of item under uid whose save failed: the put did
\* not panic, returned the error, and the item is in the tree and in every
\* index
PutSurvives(o, uid, item) ==
    /\ ~o.panics
    /\ o.err
    /\ Applied(o.s.backing, o.s.index, uid, item)

\* the outcome o of a delete that took the wrapper w out while Remove
\* failed: the delete did not panic, returned the error, and w is gone
\* from the tree and from every bucket
DeleteSurvives(o, w) ==
    /\ ~o.panics
    /\ o.err
    /\ w.uid \notin TreeUIDs(o.s.backing)
    /\ w.uid \notin BucketUIDs(o.s.index)

\* C21: a backend failure never aborts the store nor undoes the change in
\* memory.  When the backend's save (plain or with metadata) fails during
\* Put, Put returns the error and the item is in the tree and in every
\* index; when Remove fails during Delete, Delete returns the error and the
\* item is gone from the tree and from every index.
C21_BackendFailure ==
    persister =>
        /\ \A p \in Puts : \A nilMeta \in BOOLEAN :
              PutSurvives(putFailed(Cur, p.item, NewUID(Cur), p.ordW, p.ordA, nilMeta),
                          NewUID(Cur), p.item)
        /\ \A search \in Items : get(backing, search) # Nil =>
              DeleteSurvives(deleteFailed(Cur, search), get(backing, search))

\* the items held in memory by the fields s: those of the tree in order and
\* those of every bucket
Memory(s) ==
    [tree |-> itemsOf(s.backing),
     buckets |-> UNION {{<<id, k, itemsOf(s.index[id][k])>> : k \in DOMAIN s.index[id]} :
                           id \in DOMAIN s.index}]

\* the batches the store can run: the list and the orders in which
\* s.indexes is iterated for each item
PutAlls ==
    IF wrapItPanics THEN {}
    ELSE {[items |-> items, ordW |-> ordW, ordsA |-> ordsA] :
             items \in {b \in Batches : Len(b) > 0 /\ Len(b) <= Cardinality(Free(Cur))},
             ordW \in WrapOrders,
             ordsA \in [1..MaxBatch -> Perms(DOMAIN indexes)]}

\* the puts of the items of the batch b, one Put after the other
RECURSIVE PutEach(_, _, _)
PutEach(s, b, i) ==
    IF i > Len(b.items) THEN s
    ELSE PutEach(put(s, b.items[i], NewUID(s), b.ordW, b.ordsA[i]).s, b, i + 1)

\* the batch b run while the saves marked in fails fail
RanFailing(b, fails, nilMeta) ==
    putAllFailed(putAllStart(Cur), b.items, 1, b.ordW, b.ordsA, fails, nilMeta)

\* C22: PutAll applies every item of the list in list order exactly as Put
\* would (a later item replaces an equal earlier one), returns an error if
\* and only if the backend's save failed for at least one item, and leaves
\* every item of the list applied in memory whether or not it returns an
\* error.
C22_PutAll ==
    \A b \in PutAlls :
        /\ putAllLoop(Cur, b.items, 1, b.ordW, b.ordsA) = PutEach(Cur, b, 1)
        /\ Len(b.items) = 2 /\ Equal(b.items[1], b.items[2]) =>
              \E p \in 1..Len(putAllLoop(Cur, b.items, 1, b.ordW, b.ordsA).backing) :
                 /\ Equals(putAllLoop(Cur, b.items, 1, b.ordW, b.ordsA).backing,
                           b.items[2]) = {p}
                 /\ putAllLoop(Cur, b.items, 1, b.ordW, b.ordsA).backing[p].item
                        = b.items[2]
        /\ persister => \A fails \in [1..Len(b.items) -> BOOLEAN], nilMeta \in BOOLEAN :
              /\ ~RanFailing(b, fails, nilMeta).panics
              /\ putAllErr(RanFailing(b, fails, nilMeta)) <=> \E i \in 1..Len(b.items) : fails[i]
              /\ Memory(RanFailing(b, fails, nilMeta).s)
                     = Memory(putAllLoop(Cur, b.items, 1, b.ordW, b.ordsA))

\* the store l a load built holds the record rec of the backend: in the tree
\* under the record's uid and in a bucket of every index
Holds(l, rec) ==
    /\ \E i \in 1..Len(l.backing) :
          l.backing[i].uid = rec.uid /\ l.backing[i].item = rec.item
    /\ \A id \in DOMAIN indexes :
          id \in DOMAIN l.index /\ Places(l.index[id], rec.uid) # {}

\* the load l of the backend records d sent nothing, wrote nothing to the
\* backend and holds every record
LoadedAll(l, d) ==
    /\ l.out = <<>>
    /\ l.disk \subseteq d
    /\ \A rec \in d : Holds(l, rec)

\* C23: attaching a backend loads every record it holds into the tree and
\* the indexes under the record's uid, sends no happening and saves
\* nothing, also when loaded records have the same key in a unique index.
C23_Load ==
    \A order \in Perms({r.uid : r \in disk}), ordW \in WrapOrders,
       ordA \in Perms(DOMAIN indexes) :
        LoadedAll(Loaded(order, ordW, ordA), disk)

\* the thresholds of ae with the time of st each is compared to, a zero
\* modified standing for created and a zero accessed for modified
Thresholds(ae, st) ==
    {<<ae.cTime, st.Created>>,
     <<ae.mTime, IF st.Modified = 0 THEN st.Created ELSE st.Modified>>,
     <<ae.aTime, IF st.Accessed # 0 THEN st.Accessed
                 ELSE IF st.Modified # 0 THEN st.Modified ELSE st.Created>>}

\* the positions of the answers in cb that are not null
Answered(cb) == {i \in 1..Len(cb) : cb[i] # ExpireNull}

\* C24: the any-threshold age expirer answers as the first predicate that
\* does not answer null; when there is none it answers true if and only if
\* some threshold that is not zero is less than now minus its time, a zero
\* modified counting as created and a zero accessed as modified.  So an item
\* never read is expired by an access threshold alone only when its last
\* write is longer ago than the threshold.
C24_AgeExpirer ==
    /\ \A cb \in Verdicts :
          ageExpirerIsExpired(ager, cb, now, stats[1]) =
              IF Answered(cb) # {} THEN cb[Min(Answered(cb))] = ExpireTrue
              ELSE \E th \in Thresholds(ager, stats[1]) :
                      th[1] # 0 /\ Sub(now, th[2]) > th[1]
    /\ stats[1].Accessed = 0 /\ stats[1].Modified # 0
          /\ ager.cTime = 0 /\ ager.mTime = 0 /\ ager.aTime # 0 =>
          (ageExpirerIsExpired(ager, <<>>, now, stats[1])
              <=> now - stats[1].Modified > ager.aTime)

\* the expirer was asked about an item never read, written before now, with
\* an access threshold alone and no predicate, and once answered true
C24_Witness ==
    /\ verdict # <<>>
    /\ verdict.cb = <<>>
    /\ verdict.any
    /\ stats[1].Accessed = 0 /\ stats[1].Modified # 0
    /\ ager.cTime = 0 /\ ager.mTime = 0 /\ ager.aTime # 0

\* C25: the require-all age expirer answers true only if every threshold
\* that is not zero has been reached and every predicate that does not
\* answer null answers true.
C25_RequireAll ==
    \A cb \in Verdicts :
        ageExpirerRequireAllIsExpired(ager, cb, now, stats[1]) =>
            /\ \A th \in Thresholds(ager, stats[1]) :
                  th[1] # 0 => Sub(now, th[2]) >= th[1]
            /\ \A i \in Answered(cb) : cb[i] = ExpireTrue

\* how many times the wrapper uid is among the wrappers visited
RECURSIVE Times(_, _)
Times(visited, uid) ==
    IF Len(visited) = 0 THEN 0
    ELSE (IF Head(visited).uid = uid THEN 1 ELSE 0) + Times(Tail(visited), uid)

\* the read r set accessed and counted a read for each wrapper it surfaced,
\* and sent one Access for each, in the order it surfaced them
CountedAndSent(r) ==
    /\ Len(r.out) = Len(r.visited)
    /\ \A i \in 1..Len(r.visited) :
          i <= Len(r.out)
          /\ r.out[i] = happening("Access", r.visited[i].item, r.visited[i].item)
    /\ \A u \in 1..MaxUID :
          r.stats[u] = IF Times(r.visited, u) = 0 THEN stats[u]
                       ELSE [stats[u] EXCEPT !.Accessed = now,
                                             !.Reads = @ + Times(r.visited, u)]

\* C26: every read (Get, Lookup, One, Each, All, the four traversals and
\* Info) sets accessed and counts one read for each item it surfaces, and
\* sends exactly one Access happening for each.
C26_ReadsCountAndSend == \A r \in Reads : CountedAndSent(r)

\* C27: reads of the same item at the same time lose no update of its
\* statistics: every read that completes raises the item's read counter by
\* exactly one, so N reads raise it by N.
C27_NoLostRead ==
    [][\A i \in 1..Len(reading) :
          reading' = RemoveAt(reading, i) =>
              stats'[reading[i].uid].Reads = stats[reading[i].uid].Reads + 1]_vars

\* the statistics st a put at the time t left its wrapper, when old is the
\* stored wrapper equal to the item put, or Nil: created is the time of the
\* first insertion, the write is counted once and modified is t
PutCounted(st, old, t) ==
    /\ st.Created = IF old = Nil THEN t ELSE stats[old.uid].Created
    /\ st.Writes = (IF old = Nil THEN 0 ELSE stats[old.uid].Writes) + 1
    /\ st.Reads = IF old = Nil THEN 0 ELSE stats[old.uid].Reads
    /\ st.Modified = t

\* C28: created is set at the first insertion of an item and kept by every
\* put that replaces it; each put counts one write and sets modified; the
\* read and write counters of an item never decrease while it is stored;
\* created is never later than modified.
C28_StatsLifecycle ==
    /\ [](/\ \A i \in 1..Len(backing) :
               /\ stats[backing[i].uid].Created >= 1
               /\ stats[backing[i].uid].Created <= stats[backing[i].uid].Modified
          /\ Free(Cur) # {} =>
                \A item \in StatItems, ordW \in WrapOrders, ordA \in Perms(DOMAIN indexes) :
                    PutCounted(addWrapStats(stats,
                                            addWrap(Cur, wrapIt(item, NewUID(Cur), ordW), ordA),
                                            NewUID(Cur), now)[NewUID(Cur)],
                               get(backing, item), now))
    /\ [][\A i \in 1..Len(backing), j \in 1..Len(backing') :
              Equal(backing[i].item, backing'[j].item) =>
                  /\ stats'[backing'[j].uid].Created = stats[backing[i].uid].Created
                  /\ stats'[backing'[j].uid].Reads >= stats[backing[i].uid].Reads
                  /\ stats'[backing'[j].uid].Writes >= stats[backing[i].uid].Writes]_vars

\* C29: the tree, the index maps, the subscriber lists and the used flag are
\* only accessed while the store's lock is held, by On, by the dispatch
\* worker and by the configuration methods too, so that no access races
\* with another: a call of On leaves the list as it was at that moment with
\* its handler appended, and no descriptor changes once the store is used.
C29_LockHeld ==
    [][/\ \A i \in 1..Len(pending) :
             pending' = RemoveAt(pending, i) /\ pending[i].op = "On" =>
                 notifiers'[pending[i].event]
                     = Append(notifiers[pending[i].event], pending[i].handler)
       /\ used => UNCHANGED <<indexes, cIndex, primaryKey, reversed>>]_vars

\* the uids of the wrappers in the buckets of the index id
IndexedUIDs(ix, id) ==
    IF id \in DOMAIN ix
    THEN UNION {{ix[id][k][i].uid : i \in 1..Len(ix[id][k])} : k \in DOMAIN ix[id]}
    ELSE {}

\* what the call c leaves when it runs alone from the fields it found when
\* it took the lock
Alone(c, ordW, ordsA) ==
    IF c.op = "Delete" THEN delete(c.start[1], c.items[1]).s
    ELSE putAllFailed(putAllStart(c.start[1]), c.items, 1, ordW, ordsA, c.fails,
                      c.nilMeta).s

\* C30: the state the concurrent calls of Put, PutAll and Delete reach is
\* the state they reach one at a time in some order, each PutAll in one
\* step: a call that has gone through its list leaves what it leaves when it
\* runs alone.  No reader sees a put or a batch applied in part: while a
\* goroutine reads, every item of the tree is in the index and no call has
\* stopped before the end of its list.
C30_Serialized ==
    /\ \A t \in 1..MaxThreads :
          threads[t].pc = "locked" /\ threads[t].i > Len(threads[t].items) =>
              \E ordW \in WrapOrders,
                 ordsA \in [1..Len(threads[t].items) -> Perms(DOMAIN indexes)] :
                 Memory(Cur) = Memory(Alone(threads[t], ordW, ordsA))
    /\ (\E r \in 1..MaxThreads : threads[r].pc = "reading") =>
          /\ \A id \in DOMAIN indexes : IndexedUIDs(index, id) = TreeUIDs(backing)
          /\ \A t \in 1..MaxThreads :
                threads[t].pc = "unwound" => threads[t].items = <<>>

\* C31: while other goroutines put, delete, expire and read, a goroutine's
\* Get with a probe equal to x, called after its own Put(x) has returned,
\* returns x.
C31_ReadsOwnWrite == own.got # <<>> => own.got = own.put

\* C32: a handler that panics affects only the dispatch worker: the
\* operation that produced the event has completed, and the worker goes on
\* to call the remaining handlers for that event and to deliver the events
\* that follow.
C32_PanicIsolated ==
    [][Len(happens') < Len(happens) =>
          /\ calls' = emit(Head(happens))
          /\ worker' = "ready"]_vars

\* the tree of the put p once ReplaceOrInsert has put its wrapper w in the
\* place f
Inserted(w, f) ==
    [Cur EXCEPT !.backing = IF f.found THEN [@ EXCEPT ![f.at] = w] ELSE InsertAt(@, f.at, w)]

\* the fields when the loop of Store.addWrap comes to the index id for the
\* wrapper w that took the place of ow, r being what the indexes before it
\* left: the old key's entry is removed and the index has its map
Reached(r, id, ow) ==
    [r EXCEPT !.index =
        IF id \in DOMAIN (IF ow # Nil
                          THEN rmFromIndex(@, id, ow.values[indexes[id].n + 1], ow) ELSE @)
        THEN (IF ow # Nil THEN rmFromIndex(@, id, ow.values[indexes[id].n + 1], ow) ELSE @)
        ELSE MapPut((IF ow # Nil
                     THEN rmFromIndex(@, id, ow.values[indexes[id].n + 1], ow) ELSE @),
                    id, <<>>)]

\* the fields at the last `s.happens <-` of Store.addToIndex for the index id
\* and the wrapper w, started on the fields s: sent tells whether it sent
Sending(s, id, w) ==
    IF indexes[id].unique /\ Len(bucket(s.index, id, w.values[indexes[id].n + 1])) > 0
    THEN [sent |-> evict(s, bucket(s.index, id, w.values[indexes[id].n + 1]), w,
                         FALSE).emitted,
          s |-> evict(s, bucket(s.index, id, w.values[indexes[id].n + 1]), w, FALSE).s]
    ELSE [sent |-> FALSE, s |-> s]

\* that, for the k-th index the put p comes to
Evicting(p, k, w, f) ==
    Sending(Reached(addWrapLoop([s |-> Inserted(w, f), emitted |-> FALSE], w,
                                IF f.found THEN backing[f.at] ELSE Nil,
                                SubSeq(p.ordA, 1, k - 1)).s,
                    p.ordA[k], IF f.found THEN backing[f.at] ELSE Nil),
            p.ordA[k], w)

\* C33: when an Insert, Update, Remove or Expiry happening is sent, the
\* tree and every index hold the whole mutation it tells of: the new item
\* is in the tree and in its bucket of every index, the old, removed or
\* evicted item is in no bucket.
C33_SentAfterMutation ==
    /\ \A p \in Puts :
          /\ Ran(p).s.out # <<>> =>
                /\ Applied(Ran(p).s.backing, Ran(p).s.index, NewUID(Cur), p.item)
                /\ \A w \in Gone(Ran(p).s) : w.uid \notin BucketUIDs(Ran(p).s.index)
          /\ \A k \in 1..Len(p.ordA) :
                Evicting(p, k, wrapIt(p.item, NewUID(Cur), p.ordW),
                         find(backing, p.item)).sent =>
                    Applied(Evicting(p, k, wrapIt(p.item, NewUID(Cur), p.ordW),
                                     find(backing, p.item)).s.backing,
                            Evicting(p, k, wrapIt(p.item, NewUID(Cur), p.ordW),
                                     find(backing, p.item)).s.index,
                            NewUID(Cur), p.item)
    /\ \A search \in Items :
          delete(Cur, search).s.out # <<>> =>
              \A w \in Gone(delete(Cur, search).s) :
                  w.uid \notin BucketUIDs(delete(Cur, search).s.index)

\* C34: when every handler returns and calls no operation of the store,
\* every happening sent is delivered in the end to the handlers of its
\* kind, and every operation returns in the end: the producers, the bounded
\* channel and the dispatch worker do not deadlock, also when the channel
\* is full.
C34_NoDeadlock ==
    /\ \A t \in 1..MaxThreads :
          (threads[t].pc \in {"locked", "added", "reading"}) ~> (threads[t].pc = "idle")
    /\ (Len(happens) > 0) ~> (Len(happens) = 0)
    /\ [][Len(happens') < Len(happens) => calls' = emit(Head(happens))]_vars

\* a producer holds the lock with a happening to send, the channel is full
\* and a handler is registered for the kind at its head
C34_Witness ==
    /\ Len(happens) = QueueCap
    /\ Len(notifiers[Head(happens).event]) > 0
    /\ \E t \in 1..MaxThreads :
          threads[t].pc = "added" /\ Len(threads[t].next[1].s.out) > 0

\* C35: a handler may call operations of the same store without ever
\* deadlocking it, whatever the number of undelivered events and whatever
\* other goroutines are doing: a worker that is inside a handler calling
\* the store always comes back to receive the next happening.
C35_HandlerReturns == (worker = "handling") ~> (worker = "ready")

\* C36: in every reachable state each index descriptor has a distinct
\* position in 0 .. (number of indexes - 1) and every wrapper's snapshot of
\* values has exactly one entry per index, also after CreateIndex or
\* PrimaryKey was called again with a field list already used, so that no
\* operation addresses a position outside a snapshot.
C36_Positions ==
    /\ \A id \in DOMAIN indexes : indexes[id].n \in 0..(Cardinality(DOMAIN indexes) - 1)
    /\ \A id \in DOMAIN indexes : \A other \in DOMAIN indexes :
          id # other => indexes[id].n # indexes[other].n
    /\ \A i \in 1..Len(backing) : Len(backing[i].values) = Cardinality(DOMAIN indexes)

\* C37: Keys(fields) is exactly the set of the keys under which at least
\* one wrapper is stored in that index, and IndexStats(fields) has one entry
\* per such key with a count of at least 1: a key whose last item was
\* deleted, expired, evicted or moved to another key is not reported.
C37_KeysHeld ==
    \A fields \in FieldLists :
       /\ keysOf(fields) =
             IF Join(fields) \in DOMAIN indexes /\ Join(fields) \in DOMAIN index
             THEN {k \in DOMAIN index[Join(fields)] : Len(index[Join(fields)][k]) >= 1}
             ELSE {}
       /\ \A e \in indexStats(fields) : e.Count >= 1
       /\ \A e \in indexStats(fields) : e.Key \in keysOf(fields)
       /\ Cardinality(indexStats(fields)) = Cardinality(keysOf(fields))

\* C38: when the host changes an indexed field of a stored item (without
\* changing its order) and then deletes or re-puts it, the item's wrapper
\* leaves the bucket of the key recorded at its last put: every entry of
\* every bucket is the wrapper of an item now in the tree, filed under the
\* key that wrapper recorded, and no item has two wrappers (one from
\* before the change and one from the put after it).
C38_NoStaleEntry ==
    /\ \A id \in DOMAIN index : \A k \in DOMAIN index[id] : \A j \in 1..Len(index[id][k]) :
          /\ \E i \in 1..Len(backing) : backing[i].uid = index[id][k][j].uid
          /\ id \in DOMAIN indexes => index[id][k][j].values[indexes[id].n + 1] = k
    /\ \A i \in 1..Len(backing) : \A j \in 1..Len(backing) :
          i # j => less(backing[i].item, backing[j].item) \/ less(backing[j].item, backing[i].item)

\* C39: after ExpireInterval(d), called at any time in the store's life,
\* the automatic passes run every d once the interval in progress has
\* ticked, and at the default interval when it was never called: whenever a
\* tick starts the next interval (or the loop starts), the next tick is due
\* one interval of the store's present ticker later.
C39_EveryInterval == [][ranged'.due # ranged.due => ranged'.due = now' + ticker']_vars

\* the items of the tree t, in order
ItemsIn(t) == [i \in 1..Len(t) |-> t[i].item]

\* the contents of the index maps idx: the items filed under each key of
\* each index
Held(idx) ==
    [id \in DOMAIN idx |->
        [k \in DOMAIN idx[id] |-> {idx[id][k][j].item : j \in 1..Len(idx[id][k])}]]

\* the outcome of Store.Put of the same item, run with the orders of q, on
\* the store that the put yielding `first` left
Again(first, item, q) == put(first.s, item, NewUID(first.s), q.ordW, q.ordA)

\* the put yielding `second` left what the put yielding `first` had left,
\* and returned the item
Same(first, second, item) ==
    /\ second.old = item
    /\ Len(second.s.backing) = Len(first.s.backing)
    /\ ItemsIn(second.s.backing) = ItemsIn(first.s.backing)
    /\ Held(second.s.index) = Held(first.s.index)
    /\ \E i \in 1..Len(second.s.backing) : second.s.backing[i].item = item

\* the second put of the item of p, where there is a uid left for it
Twice(first, p) ==
    Free(first.s) # {} =>
       \A q \in {r \in Puts : r.item = p.item} : Same(first, Again(first, p.item, q), p.item)

\* C40: putting the same item twice in a row leaves the tree and the
\* contents of every index as after the first put: the second put returns
\* the item itself, len is unchanged, and the item is not evicted through
\* its own keys in a unique index.
C40_PutTwice == \A p \in Puts : Twice(Ran(p), p)

====
